---- MODULE Spec2Model ----
(***************************************************************************)
(* A model of the ai-buzz-tools service: the provider status aggregator    *)
(* with its 60 second cache (api/status.py), the error decoder             *)
(* (api/error_decoder.py) and the in-memory usage counters                 *)
(* (api/analytics.py).                                                     *)
(*                                                                         *)
(* Python strings are sequences of one-character strings, so that slicing, *)
(* lower(), the `in` substring test and the code point order of str are    *)
(* computed and not assumed.  An Optional value is <<>> for None and <<v>> *)
(* for a value v.                                                          *)
(***************************************************************************)
EXTENDS Integers, Sequences, FiniteSets, TLC

\* ------------------------------------------------------------------ bounds
\* The clock advances MaxTicks times.
MaxTicks == 3
\* error_decoder.total stops at MaxDecodes: no decode call is made beyond it.
MaxDecodes == 3
\* calc_calls stops at MaxCalcs: no calculation is answered beyond it.
MaxCalcs == 2
\* Every list of at most MaxListLen model keys is a compare request.
MaxListLen == 3
\* A message for the direct calls of the matcher has at most MaxPhrases phrases.
MaxPhrases == 3
\* cmd_push is run MaxPushes times.
MaxPushes == 2
\* subscribe_email is called MaxSubscribes times.
MaxSubscribes == 2
\* pricing_calculator.total stops at MaxTracked: no tracked call is made beyond it.
MaxTracked == 3

\* ------------------------------------------------------------ Python text
\* The printable ASCII characters in code point order, starting at 32 (the
\* grave accent, code point 96, is spelled out).
ASCII == <<" ", "!", "\"", "#", "$", "%", "&", "'", "(", ")", "*", "+", ",", "-", ".", "/", "0", "1", "2", "3", "4", "5", "6", "7", "8", "9", ":", ";", "<", "=", ">", "?", "@", "A", "B", "C", "D", "E", "F", "G", "H", "I", "J", "K", "L", "M", "N", "O", "P", "Q", "R", "S", "T", "U", "V", "W", "X", "Y", "Z", "[", "\\", "]", "^", "_", "GRAVE", "a", "b", "c", "d", "e", "f", "g", "h", "i", "j", "k", "l", "m", "n", "o", "p", "q", "r", "s", "t", "u", "v", "w", "x", "y", "z", "{", "|", "}", "~">>

\* ord(c)
Ord(c) == 31 + (CHOOSE i \in 1..Len(ASCII) : ASCII[i] = c)

\* a < b on str: lexicographic by code point, a proper prefix first.
RECURSIVE StrLess(_, _)
StrLess(a, b) ==
    IF b = <<>> THEN FALSE
    ELSE IF a = <<>> THEN TRUE
    ELSE IF Head(a) = Head(b) THEN StrLess(Tail(a), Tail(b))
    ELSE Ord(Head(a)) < Ord(Head(b))

\* str(n) for an int n >= 0, as the f-strings format it.
RECURSIVE Dec(_)
Dec(n) ==
    IF n < 10 THEN <<ASCII[17 + n]>>
    ELSE Dec(n \div 10) \o <<ASCII[17 + (n % 10)]>>

\* s[:n]
Take(s, n) == SubSeq(s, 1, IF Len(s) < n THEN Len(s) ELSE n)

\* c * n
Rep(c, n) == [i \in 1..n |-> c]

\* needle in hay
Contains(hay, needle) ==
    \E i \in 0..(Len(hay) - Len(needle)) : SubSeq(hay, i + 1, i + Len(needle)) = needle

None == <<>>
Some(v) == <<v>>

\* ------------------------------------------------ api/status.py: constants
STATUS_CACHE_TTL == 60
LATENCY_DEGRADED_MS == 2000
REQUEST_TIMEOUT_S == 10

TimeoutPrefix == <<"T", "i", "m", "e", "o", "u", "t", " ", "a", "f", "t", "e", "r", " ">>
ServerErrorPrefix == <<"S", "e", "r", "v", "e", "r", " ", "e", "r", "r", "o", "r", ":", " ", "H", "T", "T", "P", " ">>
HighLatencyPrefix == <<"H", "i", "g", "h", " ", "l", "a", "t", "e", "n", "c", "y", ":", " ">>
ConnectionFailed == <<"C", "o", "n", "n", "e", "c", "t", "i", "o", "n", " ", "f", "a", "i", "l", "e", "d">>

VARIABLES
    now,                 \* time.time() / datetime.utcnow(), in whole seconds
    providers_config,    \* config["providers"] of status_providers.json, in file order
    status_cache,        \* _status_cache: None or the cached response_data
    status_cache_time,   \* _status_cache_time
    pc,                  \* per request: where check_all_providers stands
    current_time,        \* per request: the local current_time
    tasks,               \* per request: the check_provider_status tasks under gather
    completed,           \* per request: task indexes in the order the probes completed
    probed,              \* per request: what each probe met (None while in flight)
    response,            \* per request: the StatusResponse returned, None if none
    served               \* per request: "cache" | "fresh" (the two log lines) | "error500"

statusVars == <<now, providers_config, status_cache, status_cache_time, pc,
                current_time, tasks, completed, probed, response, served>>

\* ---------------------------------------------- api/analytics.py: the state
VARIABLES
    stats,          \* _stats
    decode_reply,   \* what the last decode call returned, None before the first
    reset_reply,    \* what the last GET /analytics/reset returned, None before the first
    sent,           \* per message: the decode calls made with it since the last reset
    stats_reply,    \* what the last GET /analytics/stats returned, None before the first
    calc_calls      \* the calculation calls answered with 200 since the last reset

analyticsVars == <<stats, decode_reply, reset_reply, sent, stats_reply, calc_calls>>

\* ------------------------------------------------ api/pricing.py: the state
VARIABLES
    pricing_data,          \* the content of data/pricing_data.json
    pricing_data_cached,   \* "pricing_data.json" in _data_cache
    pricing_reply          \* the last response of a pricing endpoint, None before the first

pricingVars == <<pricing_data, pricing_data_cached, pricing_reply>>

\* ------------------------------------- api/error_decoder.py: direct calls
VARIABLES
    match_message,  \* the error message the direct calls are made with
    match_call      \* the last call of match_error_pattern or decode_error and its result

matcherVars == <<match_message, match_call>>

\* ------------------------------- services/wordpress.py, scripts/wp_pages.py
VARIABLES
    wp_site,        \* the pages WordPress holds, in the order of their creation
    wp_pc,          \* where cmd_push stands: "idle" or the WordPressService method running
    existing,       \* cmd_push: what get_page_by_slug returned
    attempt,        \* _request_with_retry: the loop variable
    outcomes,       \* how the attempts of the current _request_with_retry call ended
    sleeps,         \* the arguments of time.sleep in the current _request_with_retry call
    retry_result,   \* None while _request_with_retry runs, then what it returned or raised
    pushes,         \* the cmd_push calls finished
    push_result     \* what the last cmd_push printed and returned, None before the first

wordpressVars == <<wp_site, wp_pc, existing, attempt, outcomes, sleeps, retry_result,
                   pushes, push_result>>

\* --------------------------------------- api/shared.py: subscribe_email
VARIABLES
    environ,          \* os.environ: MAILCHIMP_API_KEY and MAILCHIMP_LIST_ID
    list_members,     \* the members of the Mailchimp list, by subscriber hash
    set_list_member,  \* the last client.lists.set_list_member call, None if none was made
    subscribe_reply,  \* what the last subscribe_email call returned, None before the first
    subscriptions     \* the subscribe_email calls made

mailchimpVars == <<environ, list_members, set_list_member, subscribe_reply, subscriptions>>

vars == <<statusVars, analyticsVars, pricingVars, matcherVars, wordpressVars, mailchimpVars>>

\* The GET /status/check requests that may be in progress at once.
Requests == {"req1", "req2"}

\* ------------------------------------------------------- provider registry
\* A registry entry keeps what the aggregation reads and returns: id and display
\* name.  endpoint, method and status_page only parameterise the HTTP call and
\* are copied through.
Provider(id, name) == [id |-> id, name |-> name]

OpenAI == Provider("openai", <<"O", "p", "e", "n", "A", "I">>)
Anthropic == Provider("anthropic", <<"A", "n", "t", "h", "r", "o", "p", "i", "c">>)
XAI == Provider("xai", <<"x", "A", "I">>)
Google == Provider("google", <<"G", "o", "o", "g", "l", "e">>)
\* A second entry with the display name of the first.
AzureOpenAI == Provider("azure", <<"O", "p", "e", "n", "A", "I">>)

Registries ==
    { <<>>,
      <<OpenAI>>,
      <<OpenAI, Anthropic>>,
      <<OpenAI, AzureOpenAI, Anthropic>>,
      <<XAI, OpenAI, Google, Anthropic>> }

\* ------------------------------------------------------------ probe outcomes
\* What one HTTP probe meets: an exception class ("none" when a response came
\* back), the status code of the response, the measured int((time.time() - start_time)
\* * 1000), and str(e) of the exception.
Outcome(exc, code, ms, text) ==
    [exc |-> exc, status_code |-> code, elapsed_ms |-> ms, text |-> text]

Responded(code, ms) == Outcome("none", code, ms, <<>>)
TimedOut == Outcome("timeout", 0, 10000, <<"T", "i", "m", "e", "o", "u", "t">>)
ConnectFailed == Outcome("connect", 0, 0, <<"r", "e", "f", "u", "s", "e", "d">>)
Raised(text) == Outcome("other", 0, 0, text)

StatusCodes == {200, 400, 401, 404, 499, 500, 502, 503}
Latencies == {0, 120, 1999, 2000, 2001, 9999}
ExceptionTexts == {<<>>, <<"b", "o", "o", "m">>, Rep("e", 101)}

AllOutcomes ==
    {Responded(c, l) : c \in StatusCodes, l \in Latencies}
        \cup {TimedOut, ConnectFailed} \cup {Raised(t) : t \in ExceptionTexts}

CoreOutcomes ==
    {Responded(401, 120), Responded(200, 2000), Responded(503, 120),
     TimedOut, ConnectFailed, Raised(<<>>)}

FewOutcomes == {Responded(401, 120), TimedOut}

\* A one-provider registry is probed with every outcome, a larger one with one
\* outcome of each kind.
OutcomesFor(registry) == IF Len(registry) <= 1 THEN AllOutcomes ELSE CoreOutcomes

\* ------------------------------------------------- check_provider_status
ProviderStatus(id, name, status, latency_ms, last_checked, error) ==
    [id |-> id, name |-> name, status |-> status, latency_ms |-> latency_ms,
     last_checked |-> last_checked, error |-> error]

\* A finished task: it returned value[1], or it raised.
Returns(v) == [done |-> TRUE, raised |-> FALSE, value |-> <<v>>]
Raises == [done |-> TRUE, raised |-> TRUE, value |-> <<>>]
Running == [done |-> FALSE, raised |-> FALSE, value |-> <<>>]

\* check_provider_status with the latency test ahead of the status code test.
check_provider_status_latency_first(provider_id, name, last_checked, o) ==
    IF o.exc = "none" THEN
        IF o.elapsed_ms >= LATENCY_DEGRADED_MS THEN
            Returns(ProviderStatus(provider_id, name, "degraded", Some(o.elapsed_ms),
                last_checked, Some(HighLatencyPrefix \o Dec(o.elapsed_ms) \o <<"m", "s">>)))
        ELSE IF o.status_code >= 500 THEN
            Returns(ProviderStatus(provider_id, name, "down", Some(o.elapsed_ms),
                last_checked, Some(ServerErrorPrefix \o Dec(o.status_code))))
        ELSE
            Returns(ProviderStatus(provider_id, name, "operational", Some(o.elapsed_ms),
                last_checked, None))
    ELSE IF o.exc = "timeout" THEN
        Returns(ProviderStatus(provider_id, name, "down", Some(o.elapsed_ms),
            last_checked, Some(TimeoutPrefix \o Dec(REQUEST_TIMEOUT_S) \o <<"s">>)))
    ELSE IF o.exc = "connect" THEN
        Returns(ProviderStatus(provider_id, name, "down", None,
            last_checked, Some(ConnectionFailed)))
    ELSE
        Returns(ProviderStatus(provider_id, name, "down", None,
            last_checked, Some(Take(o.text, 100))))

\* check_provider_status without its last handler, `except Exception`.
check_provider_status_no_catch_all(provider_id, name, last_checked, o) ==
    IF o.exc = "none" THEN
        IF o.status_code >= 500 THEN
            Returns(ProviderStatus(provider_id, name, "down", Some(o.elapsed_ms),
                last_checked, Some(ServerErrorPrefix \o Dec(o.status_code))))
        ELSE IF o.elapsed_ms >= LATENCY_DEGRADED_MS THEN
            Returns(ProviderStatus(provider_id, name, "degraded", Some(o.elapsed_ms),
                last_checked, Some(HighLatencyPrefix \o Dec(o.elapsed_ms) \o <<"m", "s">>)))
        ELSE
            Returns(ProviderStatus(provider_id, name, "operational", Some(o.elapsed_ms),
                last_checked, None))
    ELSE IF o.exc = "timeout" THEN
        Returns(ProviderStatus(provider_id, name, "down", Some(o.elapsed_ms),
            last_checked, Some(TimeoutPrefix \o Dec(REQUEST_TIMEOUT_S) \o <<"s">>)))
    ELSE IF o.exc = "connect" THEN
        Returns(ProviderStatus(provider_id, name, "down", None,
            last_checked, Some(ConnectionFailed)))
    ELSE Raises

check_provider_status(provider_id, name, last_checked, o) ==
    IF o.exc = "none" THEN
        LET latency_ms == o.elapsed_ms
            status_code == o.status_code
        IN  IF status_code >= 500 THEN
                Returns(ProviderStatus(provider_id, name, "down", Some(latency_ms),
                    last_checked, Some(ServerErrorPrefix \o Dec(status_code))))
            ELSE IF latency_ms >= LATENCY_DEGRADED_MS THEN
                Returns(ProviderStatus(provider_id, name, "degraded", Some(latency_ms),
                    last_checked, Some(HighLatencyPrefix \o Dec(latency_ms) \o <<"m", "s">>)))
            ELSE
                Returns(ProviderStatus(provider_id, name, "operational", Some(latency_ms),
                    last_checked, None))
    ELSE IF o.exc = "timeout" THEN
        Returns(ProviderStatus(provider_id, name, "down", Some(o.elapsed_ms),
            last_checked, Some(TimeoutPrefix \o Dec(REQUEST_TIMEOUT_S) \o <<"s">>)))
    ELSE IF o.exc = "connect" THEN
        Returns(ProviderStatus(provider_id, name, "down", None,
            last_checked, Some(ConnectionFailed)))
    ELSE
        Returns(ProviderStatus(provider_id, name, "down", None,
            last_checked, Some(Take(o.text, 100))))

\* --------------------------------------------------- check_all_providers
\* The results in the order in which the tasks completed.
gather_as_completed(ts, order) == [k \in 1..Len(order) |-> ts[order[k]].value[1]]

\* asyncio.gather: the results in the order of the tasks, whatever the order in
\* which they completed.
gather(ts, order) == [i \in 1..Len(ts) |-> ts[i].value[1]]

status_order(status) ==
    CASE status = "down" -> 0
      [] status = "degraded" -> 1
      [] status = "operational" -> 2
      [] OTHER -> 3

\* key(a) < key(b) for key = (status_order.get(x.status, 3), x.name)
KeyLess(a, b) ==
    \/ status_order(a.status) < status_order(b.status)
    \/ /\ status_order(a.status) = status_order(b.status)
       /\ StrLess(a.name, b.name)

\* sorted(): stable, so x goes behind every element whose key is not greater.
InsertSorted(s, x) ==
    LET later == {j \in 1..Len(s) : KeyLess(x, s[j])}
        k == IF later = {} THEN Len(s) + 1
             ELSE CHOOSE j \in later : \A j2 \in later : j <= j2
    IN  SubSeq(s, 1, k - 1) \o <<x>> \o SubSeq(s, k, Len(s))

RECURSIVE sorted(_)
sorted(s) ==
    IF s = <<>> THEN <<>>
    ELSE InsertSorted(sorted(SubSeq(s, 1, Len(s) - 1)), s[Len(s)])

\* The counts with every provider that is not operational counted as down.
CountStatus_down_is_not_operational(provider_statuses, status) ==
    IF status = "down"
    THEN Cardinality({i \in 1..Len(provider_statuses) :
                        provider_statuses[i].status # "operational"})
    ELSE Cardinality({i \in 1..Len(provider_statuses) :
                        provider_statuses[i].status = status})

CountStatus(provider_statuses, status) ==
    Cardinality({i \in 1..Len(provider_statuses) : provider_statuses[i].status = status})

\* overall_status with more than half of the providers needed for major_outage.
overall_status_strict(provider_statuses, degraded_count, down_count) ==
    IF down_count > 0 THEN
        IF 2 * down_count > Len(provider_statuses) THEN "major_outage"
        ELSE "issues_detected"
    ELSE IF degraded_count > 0 THEN "issues_detected"
    ELSE "all_operational"

\* down_count >= len(provider_statuses) / 2 is a comparison with a float.
overall_status(provider_statuses, degraded_count, down_count) ==
    IF down_count > 0 THEN
        IF 2 * down_count >= Len(provider_statuses) THEN "major_outage"
        ELSE "issues_detected"
    ELSE IF degraded_count > 0 THEN "issues_detected"
    ELSE "all_operational"

response_data(gathered, stamp) ==
    LET provider_statuses == sorted(gathered)
        operational_count == CountStatus(provider_statuses, "operational")
        degraded_count == CountStatus(provider_statuses, "degraded")
        down_count == CountStatus(provider_statuses, "down")
    IN  [success |-> TRUE,
         overall_status |-> overall_status(provider_statuses, degraded_count, down_count),
         providers |-> provider_statuses,
         operational_count |-> operational_count,
         degraded_count |-> degraded_count,
         down_count |-> down_count,
         last_updated |-> stamp,
         cache_ttl_seconds |-> STATUS_CACHE_TTL]

\* The cache test with <= for <.
CacheFresh_inclusive(t) ==
    status_cache # None /\ (t - status_cache_time) <= STATUS_CACHE_TTL

\* The cache test of check_all_providers.
CacheFresh(t) ==
    status_cache # None /\ (t - status_cache_time) < STATUS_CACHE_TTL

\* check_all_providers up to its first await: serve the cache, or start one
\* check_provider_status task per registry entry.
CheckCache(r) ==
    /\ pc[r] \in {"idle", "done"}
    /\ current_time' = [current_time EXCEPT ![r] = now]
    /\ IF CacheFresh(now)
       THEN /\ response' = [response EXCEPT ![r] = status_cache]
            /\ served' = [served EXCEPT ![r] = "cache"]
            /\ pc' = [pc EXCEPT ![r] = "done"]
            /\ tasks' = [tasks EXCEPT ![r] = <<>>]
            /\ probed' = [probed EXCEPT ![r] = <<>>]
       ELSE /\ response' = [response EXCEPT ![r] = None]
            /\ served' = [served EXCEPT ![r] = "fresh"]
            /\ pc' = [pc EXCEPT ![r] = "probing"]
            /\ tasks' = [tasks EXCEPT ![r] = [i \in 1..Len(providers_config) |-> Running]]
            /\ probed' = [probed EXCEPT ![r] = [i \in 1..Len(providers_config) |-> None]]
    /\ completed' = [completed EXCEPT ![r] = <<>>]
    /\ UNCHANGED <<wordpressVars, mailchimpVars, now, providers_config, status_cache, status_cache_time, analyticsVars, pricingVars, matcherVars>>

\* One probe of request r ends with outcome o.
ProbeDone(r, i, o) ==
    /\ pc[r] = "probing"
    /\ i \in 1..Len(tasks[r])
    /\ ~tasks[r][i].done
    /\ tasks' = [tasks EXCEPT ![r][i] =
                    check_provider_status(providers_config[i].id, providers_config[i].name,
                                          current_time[r], o)]
    /\ completed' = [completed EXCEPT ![r] = Append(@, i)]
    /\ probed' = [probed EXCEPT ![r][i] = Some(o)]
    /\ UNCHANGED <<wordpressVars, mailchimpVars, now, providers_config, status_cache, status_cache_time, pc,
                   current_time, response, served, analyticsVars, pricingVars, matcherVars>>

\* Finish, as a variant dating the cache entry by the time its payload was
\* captured would run it.
Finish_dated_at_capture(r) ==
    /\ pc[r] = "probing"
    /\ \A i \in 1..Len(tasks[r]) : tasks[r][i].done
    /\ IF \E i \in 1..Len(tasks[r]) : tasks[r][i].raised
       THEN /\ response' = [response EXCEPT ![r] = None]
            /\ served' = [served EXCEPT ![r] = "error500"]
            /\ UNCHANGED <<status_cache, status_cache_time>>
       ELSE LET data == response_data(gather(tasks[r], completed[r]), now)
            IN  /\ status_cache' = Some(data)
                /\ status_cache_time' = now
                /\ response' = [response EXCEPT ![r] = Some(data)]
                /\ UNCHANGED served
    /\ pc' = [pc EXCEPT ![r] = "done"]
    /\ tasks' = [tasks EXCEPT ![r] = <<>>]
    /\ UNCHANGED <<wordpressVars, mailchimpVars, now, providers_config, current_time, completed, probed, analyticsVars, pricingVars, matcherVars>>

\* gather has every result: sort, count, stamp, write the cache and return.  A
\* task that raised makes gather raise, which get_status answers with HTTP 500.
Finish(r) ==
    /\ pc[r] = "probing"
    /\ \A i \in 1..Len(tasks[r]) : tasks[r][i].done
    /\ IF \E i \in 1..Len(tasks[r]) : tasks[r][i].raised
       THEN /\ response' = [response EXCEPT ![r] = None]
            /\ served' = [served EXCEPT ![r] = "error500"]
            /\ UNCHANGED <<status_cache, status_cache_time>>
       ELSE LET data == response_data(gather(tasks[r], completed[r]), now)
            IN  /\ status_cache' = Some(data)
                /\ status_cache_time' = current_time[r]
                /\ response' = [response EXCEPT ![r] = Some(data)]
                /\ UNCHANGED served
    /\ pc' = [pc EXCEPT ![r] = "done"]
    /\ tasks' = [tasks EXCEPT ![r] = <<>>]
    /\ UNCHANGED <<wordpressVars, mailchimpVars, now, providers_config, current_time, completed, probed, analyticsVars, pricingVars, matcherVars>>

\* ------------------------------------------------------ error pattern catalog
\* A catalog entry keeps what matching reads: id and error_keywords.  The other
\* fields of a pattern (title, explanation, fix, ...) are copied to the response.
Pattern(id, error_keywords) == [id |-> id, error_keywords |-> error_keywords]
Patterns ==
    << Pattern("rate_limit", <<<<"r", "a", "t", "e", " ", "l", "i", "m", "i", "t">>,
           <<"4", "2", "9">>,
           <<"e", "x", "c", "e", "e", "d", "e", "d">>>>),
       Pattern("auth", <<<<"A", "P", "I", " ", "k", "e", "y">>,
           <<"i", "n", "v", "a", "l", "i", "d">>>>),
       Pattern("quota", <<<<"q", "u", "o", "t", "a">>>>),
       Pattern("context_length", <<<<"c", "o", "n", "t", "e", "x", "t">>,
           <<"l", "e", "n", "g", "t", "h">>,
           <<"t", "o", "k", "e", "n", "s">>,
           <<"m", "a", "x", "i", "m", "u", "m">>>>) >>

\* ------------------------------------------------------------ error messages
MsgRateLimit == <<"R", "a", "t", "e", " ", "L", "i", "m", "i", "t", " ", "E", "x", "c", "e", "e", "d", "e", "d">>
MsgInvalidKey == <<"I", "n", "v", "a", "l", "i", "d", " ", "A", "P", "I", " ", "k", "e", "y", ":", " ", "q", "u", "o", "t", "a">>
MsgShort == <<"z", "z", "z">>
MsgX50 == Rep("x", 50)
MsgX51 == Rep("x", 51)
MsgX52 == Rep("x", 52)

Messages == {MsgRateLimit, MsgInvalidKey, MsgShort, MsgX50, MsgX51, MsgX52}

\* hashlib.sha256(error_message.encode()).hexdigest()[:12], on Messages.
sha256_hexdigest_12(error_message) ==
    CASE error_message = MsgRateLimit -> <<"2", "8", "7", "e", "6", "b", "d", "b", "4", "9", "3", "4">>
      [] error_message = MsgInvalidKey -> <<"9", "8", "6", "5", "b", "5", "d", "d", "9", "5", "2", "5">>
      [] error_message = MsgShort -> <<"1", "7", "f", "1", "6", "5", "d", "5", "a", "5", "b", "a">>
      [] error_message = MsgX50 -> <<"7", "7", "c", "f", "1", "2", "0", "6", "0", "d", "4", "7">>
      [] error_message = MsgX51 -> <<"3", "e", "c", "d", "5", "0", "2", "a", "f", "7", "2", "c">>
      [] error_message = MsgX52 -> <<"f", "4", "3", "f", "0", "a", "f", "c", "b", "0", "7", "e">>

\* ----------------------------------------------- api/error_decoder.py
\* The upper-case letters with their lower-case forms.
UpperToLower ==
    ("A" :> "a") @@ ("B" :> "b") @@ ("C" :> "c") @@ ("D" :> "d") @@ ("E" :> "e") @@ ("F" :> "f") @@
    ("G" :> "g") @@ ("H" :> "h") @@ ("I" :> "i") @@ ("J" :> "j") @@ ("K" :> "k") @@ ("L" :> "l") @@
    ("M" :> "m") @@ ("N" :> "n") @@ ("O" :> "o") @@ ("P" :> "p") @@ ("Q" :> "q") @@ ("R" :> "r") @@
    ("S" :> "s") @@ ("T" :> "t") @@ ("U" :> "u") @@ ("V" :> "v") @@ ("W" :> "w") @@ ("X" :> "x") @@
    ("Y" :> "y") @@ ("Z" :> "z")

\* c.lower() of one character.
LowerChar(c) == IF c \in DOMAIN UpperToLower THEN UpperToLower[c] ELSE c

\* s.lower()
Lower(s) == [i \in 1..Len(s) |-> LowerChar(s[i])]

\* The loop of match_error_pattern with the message compared as it is written,
\* the keywords alone being lower-cased.
matched_keywords_message_as_written(error_message, pattern) ==
    SelectSeq(pattern.error_keywords,
              LAMBDA keyword : Contains(error_message, Lower(keyword)))

\* The loop of match_error_pattern: the keywords that occur in the message.
matched_keywords_of(error_message, pattern) ==
    LET error_lower == Lower(error_message)
    IN  SelectSeq(pattern.error_keywords,
                  LAMBDA keyword : Contains(error_lower, Lower(keyword)))

\* match_error_pattern with the count compared to 3, whatever the number of
\* keywords of the pattern.
match_error_pattern_three_for_high(error_message, pattern) ==
    LET matched_keywords == matched_keywords_of(error_message, pattern)
        keyword_count == Len(pattern.error_keywords)
        match_count == Len(matched_keywords)
        confidence ==
            IF match_count >= 3 THEN "high"
            ELSE IF match_count >= 2 THEN "medium"
            ELSE "low"
    IN  IF matched_keywords = <<>> THEN None
        ELSE Some([pattern |-> pattern,
                   matched_keywords |-> matched_keywords,
                   confidence |-> confidence,
                   match_score |-> <<match_count, keyword_count>>])

\* match_score is match_count / keyword_count: kept as the pair of the two.
match_error_pattern(error_message, pattern) ==
    LET matched_keywords == matched_keywords_of(error_message, pattern)
        keyword_count == Len(pattern.error_keywords)
        match_count == Len(matched_keywords)
        confidence ==
            IF match_count >= (IF 3 < keyword_count THEN 3 ELSE keyword_count) THEN "high"
            ELSE IF match_count >= 2 THEN "medium"
            ELSE "low"
    IN  IF matched_keywords = <<>> THEN None
        ELSE Some([pattern |-> pattern,
                   matched_keywords |-> matched_keywords,
                   confidence |-> confidence,
                   match_score |-> <<match_count, keyword_count>>])

\* The sort key without its second component.
MatchKeyGreater_score_only(a, b) ==
    LET sa == a.match_score  sb == b.match_score
    IN  sa[1] * sb[2] > sb[1] * sa[2]

\* key(a) > key(b) for key = (match_score, confidence == "high")
MatchKeyGreater(a, b) ==
    LET sa == a.match_score  sb == b.match_score
    IN  \/ sa[1] * sb[2] > sb[1] * sa[2]
        \/ /\ sa[1] * sb[2] = sb[1] * sa[2]
           /\ a.confidence = "high" /\ b.confidence # "high"

\* list.sort(reverse=True) keeps the order of equal keys: x goes behind every
\* element whose key is not smaller.
InsertDescending(s, x) ==
    LET later == {j \in 1..Len(s) : MatchKeyGreater(x, s[j])}
        k == IF later = {} THEN Len(s) + 1
             ELSE CHOOSE j \in later : \A j2 \in later : j <= j2
    IN  SubSeq(s, 1, k - 1) \o <<x>> \o SubSeq(s, k, Len(s))

RECURSIVE sort_matches(_)
sort_matches(s) ==
    IF s = <<>> THEN <<>>
    ELSE InsertDescending(sort_matches(SubSeq(s, 1, Len(s) - 1)), s[Len(s)])

\* The match infos of the patterns that match, in catalog order.
RECURSIVE collect_matches(_, _)
collect_matches(error_message, patterns) ==
    IF patterns = <<>> THEN <<>>
    ELSE match_error_pattern(error_message, Head(patterns))
            \o collect_matches(error_message, Tail(patterns))

DecodedError(pattern, confidence, matched_keywords) ==
    [pattern |-> pattern, confidence |-> confidence, matched_keywords |-> matched_keywords]

decode_error(error_message, patterns) ==
    LET matches == collect_matches(error_message, patterns)
    IN  IF matches = <<>> THEN None
        ELSE LET best_match == sort_matches(matches)[1]
             IN  Some(DecodedError(best_match.pattern, best_match.confidence,
                                   best_match.matched_keywords))

\* decode_error(error_message, patterns) for the catalog and each message.
decode_error_of == [error_message \in Messages |-> decode_error(error_message, Patterns)]

GenericSuggestions ==
    << "Check your API key and authentication",
       "Verify your request parameters are correct",
       "Check the API documentation for the specific error",
       "Ensure your network connection is stable",
       "Try again after a few moments (may be temporary)" >>

\* ------------------------------------------------------- api/analytics.py
EmptyDict == [k \in {} |-> 0]

\* d[k] = v
DictSet(dict, k, v) == [x \in (DOMAIN dict) \cup {k} |-> IF x = k THEN v ELSE dict[x]]

TokenBuckets == {"under_1k", "1k_to_10k", "10k_to_100k", "over_100k"}

\* The dict _stats is bound to at import and by reset_stats.
ZeroStats(started_at) ==
    [started_at |-> started_at,
     error_decoder |-> [total |-> 0, matched |-> 0, unmatched |-> 0, gaps |-> EmptyDict],
     pricing_calculator |-> [total |-> 0,
                             token_buckets |-> [b \in TokenBuckets |-> 0],
                             models_not_found |-> EmptyDict],
     status_page |-> [total |-> 0, by_provider |-> EmptyDict]]

\* error_message[:50] + ("..." if len(error_message) > 50 else "")
Preview(error_message) ==
    Take(error_message, 50) \o (IF Len(error_message) > 50 THEN <<".", ".", ".">> ELSE <<>>)

\* track_error_decode with total counted for a match only.
track_error_decode_total_on_match(st, error_message, matched, t) ==
    IF matched
    THEN [st EXCEPT !.error_decoder.total = @ + 1, !.error_decoder.matched = @ + 1]
    ELSE LET msg_hash == sha256_hexdigest_12(error_message)
             gaps == st.error_decoder.gaps
             entry == IF msg_hash \in DOMAIN gaps THEN gaps[msg_hash]
                      ELSE [count |-> 0, preview |-> Preview(error_message), first_seen |-> t]
         IN  [st EXCEPT !.error_decoder.unmatched = @ + 1,
                        !.error_decoder.gaps =
                            DictSet(gaps, msg_hash, [entry EXCEPT !.count = @ + 1])]

\* track_error_decode without the `msg_hash not in gaps` test: the entry is made
\* anew by every unmatched call.
track_error_decode_entry_renewed(st, error_message, matched, t) ==
    IF matched
    THEN [st EXCEPT !.error_decoder.total = @ + 1, !.error_decoder.matched = @ + 1]
    ELSE LET msg_hash == sha256_hexdigest_12(error_message)
             gaps == st.error_decoder.gaps
             entry == [count |-> 0, preview |-> Preview(error_message), first_seen |-> t]
         IN  [st EXCEPT !.error_decoder.total = @ + 1,
                        !.error_decoder.unmatched = @ + 1,
                        !.error_decoder.gaps =
                            DictSet(gaps, msg_hash, [entry EXCEPT !.count = @ + 1])]

\* track_error_decode storing the time of the call as first_seen in an entry
\* that exists already.
track_error_decode_first_seen_refreshed(st, error_message, matched, t) ==
    IF matched
    THEN [st EXCEPT !.error_decoder.total = @ + 1, !.error_decoder.matched = @ + 1]
    ELSE LET msg_hash == sha256_hexdigest_12(error_message)
             gaps == st.error_decoder.gaps
             entry == IF msg_hash \in DOMAIN gaps THEN [gaps[msg_hash] EXCEPT !.first_seen = t]
                      ELSE [count |-> 0, preview |-> Preview(error_message), first_seen |-> t]
         IN  [st EXCEPT !.error_decoder.total = @ + 1,
                        !.error_decoder.unmatched = @ + 1,
                        !.error_decoder.gaps =
                            DictSet(gaps, msg_hash, [entry EXCEPT !.count = @ + 1])]

\* track_error_decode: the new _stats, the call being made at time t.
track_error_decode(st, error_message, matched, t) ==
    IF matched
    THEN [st EXCEPT !.error_decoder.total = @ + 1, !.error_decoder.matched = @ + 1]
    ELSE LET msg_hash == sha256_hexdigest_12(error_message)
             gaps == st.error_decoder.gaps
             entry == IF msg_hash \in DOMAIN gaps THEN gaps[msg_hash]
                      ELSE [count |-> 0, preview |-> Preview(error_message), first_seen |-> t]
         IN  [st EXCEPT !.error_decoder.total = @ + 1,
                        !.error_decoder.unmatched = @ + 1,
                        !.error_decoder.gaps =
                            DictSet(gaps, msg_hash, [entry EXCEPT !.count = @ + 1])]

\* POST /error-decoder/decode with a message the request model accepts.
decode_error_message(error_message) ==
    /\ stats.error_decoder.total < MaxDecodes
    /\ LET decoded == decode_error_of[error_message]
       IN  /\ stats' = track_error_decode(stats, error_message, decoded # None, now)
           /\ decode_reply' = Some([success |-> TRUE,
                                    error_message |-> error_message,
                                    decoded |-> decoded,
                                    suggestions |-> IF decoded = None THEN GenericSuggestions
                                                    ELSE <<>>,
                                    decoded_at |-> now])
    /\ sent' = [sent EXCEPT ![error_message] = @ + 1]
    /\ UNCHANGED <<wordpressVars, mailchimpVars, reset_reply, stats_reply, calc_calls, statusVars, pricingVars, matcherVars>>

\* reset_stats with old_stats read after _stats was bound to the new dict.
reset_stats_returns_new_stats ==
    /\ stats' = ZeroStats(now)
    /\ reset_reply' = Some([success |-> TRUE, previous_stats |-> ZeroStats(now)])
    /\ sent' = [m \in Messages |-> 0]
    /\ calc_calls' = 0
    /\ UNCHANGED <<wordpressVars, mailchimpVars, decode_reply, stats_reply, statusVars, pricingVars, matcherVars>>

\* GET /analytics/reset
reset_stats ==
    /\ LET old_stats == stats
       IN  /\ stats' = ZeroStats(now)
           /\ reset_reply' = Some([success |-> TRUE, previous_stats |-> old_stats])
    /\ sent' = [m \in Messages |-> 0]
    /\ calc_calls' = 0
    /\ UNCHANGED <<wordpressVars, mailchimpVars, decode_reply, stats_reply, statusVars, pricingVars, matcherVars>>

InitAnalytics ==
    /\ stats = ZeroStats(0)
    /\ decode_reply = None
    /\ reset_reply = None
    /\ sent = [m \in Messages |-> 0]
    /\ stats_reply = None
    /\ calc_calls = 0

\* ------------------------------------- api/error_decoder.py: the endpoints
\* DecodeRequest: error_message has min_length=1.
DecodeRequestValid(error_message) == Len(error_message) >= 1

\* An answer of a decode endpoint that is not a DecodeResponse.
DecodeError(endpoint, error_message, status_code, detail) ==
    Some([endpoint |-> endpoint,
          error_message |-> error_message,
          status_code |-> status_code,
          detail |-> detail])

\* POST /error-decoder/decode: the body is validated against DecodeRequest
\* before decode_error_message is called; a body that fails is answered 422
\* with the validation errors as detail.
decode_error_message_post(error_message) ==
    IF DecodeRequestValid(error_message)
    THEN decode_error_message(error_message)
    ELSE /\ decode_reply' = DecodeError("POST /error-decoder/decode", error_message,
                                        422, Some("validation error"))
         /\ UNCHANGED <<stats, reset_reply, sent, stats_reply, calc_calls>>
         /\ UNCHANGED <<statusVars, pricingVars, matcherVars, wordpressVars, mailchimpVars>>

\* GET /error-decoder/decode: the handler builds the DecodeRequest itself; the
\* ValidationError of an empty message is raised inside the handler, where
\* nothing catches it, and the framework answers 500 without a detail.
decode_error_message_get(error_message) ==
    IF DecodeRequestValid(error_message)
    THEN decode_error_message(error_message)
    ELSE /\ decode_reply' = DecodeError("GET /error-decoder/decode", error_message,
                                        500, None)
         /\ UNCHANGED <<stats, reset_reply, sent, stats_reply, calc_calls>>
         /\ UNCHANGED <<statusVars, pricingVars, matcherVars, wordpressVars, mailchimpVars>>

\* ------------------------------ api/analytics.py: track_pricing_calculation
\* track_pricing_calculation, as a variant counting a total of exactly 1000
\* tokens as under_1k would run it.
track_pricing_calculation_1000_is_under_1k(st, input_tokens, output_tokens) ==
    LET total == input_tokens + output_tokens
        bucket == IF total <= 1000 THEN "under_1k"
                  ELSE IF total < 10000 THEN "1k_to_10k"
                  ELSE IF total < 100000 THEN "10k_to_100k"
                  ELSE "over_100k"
    IN  [st EXCEPT !.pricing_calculator.total = @ + 1,
                   !.pricing_calculator.token_buckets[bucket] = @ + 1]

\* track_pricing_calculation(input_tokens, output_tokens) on _stats = st
track_pricing_calculation(st, input_tokens, output_tokens) ==
    LET total == input_tokens + output_tokens
        bucket == IF total < 1000 THEN "under_1k"
                  ELSE IF total < 10000 THEN "1k_to_10k"
                  ELSE IF total < 100000 THEN "10k_to_100k"
                  ELSE "over_100k"
    IN  [st EXCEPT !.pricing_calculator.total = @ + 1,
                   !.pricing_calculator.token_buckets[bucket] = @ + 1]

\* A call of track_pricing_calculation.
CallTrackPricingCalculation(input_tokens, output_tokens) ==
    /\ stats.pricing_calculator.total < MaxTracked
    /\ stats' = track_pricing_calculation(stats, input_tokens, output_tokens)
    /\ UNCHANGED <<decode_reply, reset_reply, sent, stats_reply, calc_calls>>
    /\ UNCHANGED <<statusVars, pricingVars, matcherVars, wordpressVars, mailchimpVars>>

\* Token counts whose sums lie on both sides of every bucket limit.
TrackedInputTokens == {0, 999, 9999, 99999, 1000000}
TrackedOutputTokens == {0, 1}

\* ------------------------------------------------------- api/pricing.py
\* Money is kept in whole units: a price per 1M tokens in cents (2.50 is 250),
\* a cost in 1/10000 dollar (the 4 decimals the code rounds to), an amount
\* rounded to 2 decimals in cents, a percentage rounded to 1 decimal in tenths.
\* The token counts and prices of the model are ones for which this decimal
\* arithmetic and the binary floating point of the code give the same results.

\* round(n / d, ndigits) for d > 0, in units of the last digit kept: Python
\* rounds to the nearest, a tie to the even neighbour.
round(n, d) ==
    LET a == IF n < 0 THEN 0 - n ELSE n
        q == a \div d
        r == a % d
        up == 2 * r > d \/ (2 * r = d /\ q % 2 = 1)
        m == IF up THEN q + 1 ELSE q
    IN  IF n < 0 THEN 0 - m ELSE m

\* One model of the catalog and one provider with its models, in file order.
PricingModel(id, name, input_per_1m, output_per_1m) ==
    [id |-> id, name |-> name, input_per_1m |-> input_per_1m, output_per_1m |-> output_per_1m]
PricingProvider(id, name, models) == [id |-> id, name |-> name, models |-> models]

openai == <<"o", "p", "e", "n", "a", "i">>
anthropic == <<"a", "n", "t", "h", "r", "o", "p", "i", "c">>
google == <<"g", "o", "o", "g", "l", "e">>
gpt_4o == <<"g", "p", "t", "-", "4", "o">>
gpt_4o_mini == <<"g", "p", "t", "-", "4", "o", "-", "m", "i", "n", "i">>
claude_sonnet_45 == <<"c", "l", "a", "u", "d", "e", "-", "s", "o", "n", "n", "e", "t", "-", "4", "5">>
gemini_pro == <<"g", "e", "m", "i", "n", "i", "-", "p", "r", "o">>

\* gemini-pro costs what gpt-4o costs: two results with the same monthly_cost.
CatalogFull ==
    [providers |->
        << PricingProvider(google, "Google", <<PricingModel(gemini_pro, "Gemini Pro", 250, 1000)>>),
           PricingProvider(openai, "OpenAI",
               << PricingModel(gpt_4o, "GPT-4o", 250, 1000),
                  PricingModel(gpt_4o_mini, "GPT-4o mini", 15, 60) >>),
           PricingProvider(anthropic, "Anthropic",
               <<PricingModel(claude_sonnet_45, "Claude Sonnet 4.5", 300, 1500)>>) >>]

\* A catalog without openai/gpt-4o.
CatalogNoGpt4o ==
    [providers |->
        << PricingProvider(anthropic, "Anthropic",
               <<PricingModel(claude_sonnet_45, "Claude Sonnet 4.5", 300, 1500)>>),
           PricingProvider(openai, "OpenAI",
               <<PricingModel(gpt_4o_mini, "GPT-4o mini", 15, 60)>>) >>]

\* A catalog file without providers.
CatalogEmpty == [providers |-> <<>>]

\* pricing_data is Some(catalog), or None when data/pricing_data.json is missing.
Catalogs == {Some(CatalogFull), Some(CatalogNoGpt4o), Some(CatalogEmpty), None}

\* f"{provider_id}/{model_id}"
ModelKey(provider_id, model_id) == provider_id \o <<"/">> \o model_id

\* calculate_model_cost with the total taken from the two rounded costs.
calculate_model_cost_sum_of_rounded(input_tokens, output_tokens, input_per_1m, output_per_1m) ==
    LET input_cost == input_tokens * input_per_1m
        output_cost == output_tokens * output_per_1m
    IN  [input_cost |-> round(input_cost, 10000),
         output_cost |-> round(output_cost, 10000),
         total |-> round(input_cost, 10000) + round(output_cost, 10000)]

\* input_cost and output_cost before rounding are in 1/10000 of the cost unit
\* (tokens * cents / 1000000 / 100 dollars).
calculate_model_cost(input_tokens, output_tokens, input_per_1m, output_per_1m) ==
    LET input_cost == input_tokens * input_per_1m
        output_cost == output_tokens * output_per_1m
    IN  [input_cost |-> round(input_cost, 10000),
         output_cost |-> round(output_cost, 10000),
         total |-> round(input_cost + output_cost, 10000)]

\* The (provider, model) pairs of the two nested loops over the catalog, in
\* iteration order.
RECURSIVE catalog_items(_)
catalog_items(providers) ==
    IF providers = <<>> THEN <<>>
    ELSE [j \in 1..Len(Head(providers).models) |->
              [provider |-> Head(providers), model |-> Head(providers).models[j]]]
         \o catalog_items(Tail(providers))

\* A response of a pricing endpoint: the request it answers, the HTTP status,
\* the detail of an error and the body of a success.
Reply(endpoint, request, status_code, detail, body) ==
    [endpoint |-> endpoint, request |-> request, status_code |-> status_code,
     detail |-> detail, body |-> body]

\* The request model of calculate: both token counts have ge=0.
CalculateRequest(input_tokens_monthly, output_tokens_monthly, selected_model) ==
    [input_tokens_monthly |-> input_tokens_monthly,
     output_tokens_monthly |-> output_tokens_monthly,
     selected_model |-> selected_model]
CalculateRequestValid(request) ==
    request.input_tokens_monthly >= 0 /\ request.output_tokens_monthly >= 0

\* First pass: one CalculationResult per catalog model.  context_window and
\* notes are copied from the catalog to the result and are left out.
first_pass(items, input_tokens, output_tokens, selected_model) ==
    [k \in 1..Len(items) |->
        LET costs == calculate_model_cost(input_tokens, output_tokens,
                                          items[k].model.input_per_1m,
                                          items[k].model.output_per_1m)
            model_key == ModelKey(items[k].provider.id, items[k].model.id)
        IN  [provider |-> items[k].provider.id,
             provider_name |-> items[k].provider.name,
             model |-> items[k].model.id,
             model_name |-> items[k].model.name,
             monthly_cost |-> costs.total,
             input_cost |-> costs.input_cost,
             output_cost |-> costs.output_cost,
             is_selected |-> IF selected_model # None /\ selected_model # Some(<<>>)
                             THEN selected_model = Some(model_key) ELSE FALSE,
             vs_gpt4o_savings_percent |-> None]]

IsGpt4o(result) == result.provider = openai /\ result.model = gpt_4o

\* gpt4o_cost after the first pass: the total of openai/gpt-4o, None without it.
gpt4o_cost_of(results) ==
    LET at == {k \in 1..Len(results) : IsGpt4o(results[k])}
    IN  IF at = {} THEN None
        ELSE Some(results[CHOOSE k \in at : \A k2 \in at : k2 <= k].monthly_cost)

\* second_pass with the difference taken the other way round.
second_pass_cost_over_gpt4o(results, gpt4o_cost) ==
    IF gpt4o_cost # None /\ gpt4o_cost[1] > 0
    THEN [k \in 1..Len(results) |->
            IF IsGpt4o(results[k])
            THEN [results[k] EXCEPT !.vs_gpt4o_savings_percent = None]
            ELSE [results[k] EXCEPT !.vs_gpt4o_savings_percent =
                     Some(round((results[k].monthly_cost - gpt4o_cost[1]) * 1000,
                                gpt4o_cost[1]))]]
    ELSE results

\* Second pass: the savings against GPT-4o, in tenths of a percent.
second_pass(results, gpt4o_cost) ==
    IF gpt4o_cost # None /\ gpt4o_cost[1] > 0
    THEN [k \in 1..Len(results) |->
            IF IsGpt4o(results[k])
            THEN [results[k] EXCEPT !.vs_gpt4o_savings_percent = None]
            ELSE [results[k] EXCEPT !.vs_gpt4o_savings_percent =
                     Some(round((gpt4o_cost[1] - results[k].monthly_cost) * 1000,
                                gpt4o_cost[1]))]]
    ELSE results

\* An insertion that puts x before the elements of equal cost.
insert_by_monthly_cost_before_equal(s, x) ==
    LET later == {j \in 1..Len(s) : x.monthly_cost <= s[j].monthly_cost}
        k == IF later = {} THEN Len(s) + 1
             ELSE CHOOSE j \in later : \A j2 \in later : j <= j2
    IN  SubSeq(s, 1, k - 1) \o <<x>> \o SubSeq(s, k, Len(s))

\* list.sort(key=monthly_cost) keeps the order of equal keys: x goes behind
\* every element whose key is not greater.
insert_by_monthly_cost(s, x) ==
    LET later == {j \in 1..Len(s) : x.monthly_cost < s[j].monthly_cost}
        k == IF later = {} THEN Len(s) + 1
             ELSE CHOOSE j \in later : \A j2 \in later : j <= j2
    IN  SubSeq(s, 1, k - 1) \o <<x>> \o SubSeq(s, k, Len(s))

RECURSIVE sort_by_monthly_cost(_)
sort_by_monthly_cost(s) ==
    IF s = <<>> THEN <<>>
    ELSE insert_by_monthly_cost(sort_by_monthly_cost(SubSeq(s, 1, Len(s) - 1)), s[Len(s)])

\* CheapestModel(...) of results[0] or results[-1], with the fallbacks of an
\* empty result list.
CheapestModel(entry) ==
    IF entry = None
    THEN [provider |-> <<"u", "n", "k", "n", "o", "w", "n">>,
          model |-> <<"u", "n", "k", "n", "o", "w", "n">>,
          model_name |-> "Unknown", monthly_cost |-> 0]
    ELSE [provider |-> entry[1].provider, model |-> entry[1].model,
          model_name |-> entry[1].model_name, monthly_cost |-> entry[1].monthly_cost]

\* next((r for r in results if key(r) == selected_model), None)
selected_result_of(results, selected_model) ==
    LET at == {k \in 1..Len(results) :
                  Some(ModelKey(results[k].provider, results[k].model)) = selected_model}
    IN  IF selected_model = None \/ selected_model = Some(<<>>) \/ at = {} THEN None
        ELSE Some(results[CHOOSE k \in at : \A k2 \in at : k <= k2])

\* SavingsInfo(...): monthly_savings and annual_savings in cents,
\* savings_percentage in tenths of a percent, the costs in 1/10000 dollar.
SavingsInfo(selected_result, most_expensive, cheapest) ==
    LET comparison_result == IF selected_result # None THEN selected_result
                             ELSE most_expensive
    IN  IF comparison_result # None /\ cheapest # None
        THEN LET monthly_savings == comparison_result[1].monthly_cost - cheapest[1].monthly_cost
                 annual_savings == monthly_savings * 12
             IN  [has_savings |-> monthly_savings > 100,
                  selected_model |->
                      IF selected_result # None
                      THEN Some(ModelKey(selected_result[1].provider, selected_result[1].model))
                      ELSE None,
                  selected_model_name |->
                      IF selected_result # None THEN Some(selected_result[1].model_name)
                      ELSE None,
                  selected_cost |->
                      IF selected_result # None THEN selected_result[1].monthly_cost ELSE 0,
                  cheapest_model |-> ModelKey(cheapest[1].provider, cheapest[1].model),
                  cheapest_model_name |-> cheapest[1].model_name,
                  cheapest_cost |-> cheapest[1].monthly_cost,
                  monthly_savings |-> round(monthly_savings, 100),
                  annual_savings |-> round(annual_savings, 100),
                  savings_percentage |->
                      IF comparison_result[1].monthly_cost > 0
                      THEN round(monthly_savings * 1000, comparison_result[1].monthly_cost)
                      ELSE 0]
        ELSE [has_savings |-> FALSE,
              selected_model |-> None,
              selected_model_name |-> None,
              selected_cost |-> 0,
              cheapest_model |-> <<"u", "n", "k", "n", "o", "w", "n">>,
              cheapest_model_name |-> "Unknown",
              cheapest_cost |-> 0,
              monthly_savings |-> 0,
              annual_savings |-> 0,
              savings_percentage |-> 0]

\* The body of calculate_pricing from the load of the catalog to the return.
CalculateResponse(catalog, request, calculated_at) ==
    LET input_tokens == request.input_tokens_monthly
        output_tokens == request.output_tokens_monthly
        selected_model == request.selected_model
        first == first_pass(catalog_items(catalog.providers), input_tokens, output_tokens,
                            selected_model)
        results == sort_by_monthly_cost(second_pass(first, gpt4o_cost_of(first)))
        cheapest == IF results # <<>> THEN Some(results[1]) ELSE None
        most_expensive == IF results # <<>> THEN Some(results[Len(results)]) ELSE None
    IN  [success |-> TRUE,
         calculated_at |-> calculated_at,
         usage |-> [input_tokens |-> input_tokens, output_tokens |-> output_tokens],
         results |-> results,
         cheapest |-> CheapestModel(cheapest),
         most_expensive |-> CheapestModel(most_expensive),
         savings |-> SavingsInfo(selected_result_of(results, selected_model),
                                 most_expensive, cheapest),
         metadata |-> [model_count |-> Len(catalog_items(catalog.providers)),
                       provider_count |-> Len(catalog.providers)]]

\* The handler calculate_pricing, called with a request object: it loads the
\* catalog and answers; it makes no call into api.analytics.
calculate_pricing_handler(endpoint, request) ==
    /\ calc_calls < MaxCalcs
    /\ IF pricing_data = None
       THEN /\ pricing_reply' = Some(Reply(endpoint, request, 500,
                                           "Pricing data not available.", None))
            /\ UNCHANGED <<pricing_data_cached, calc_calls>>
       ELSE /\ pricing_reply' = Some(Reply(endpoint, request, 200, "",
                                           Some(CalculateResponse(pricing_data[1], request, now))))
            /\ pricing_data_cached' = TRUE
            /\ calc_calls' = calc_calls + 1
    /\ UNCHANGED <<wordpressVars, mailchimpVars, pricing_data, stats, decode_reply, reset_reply, sent, stats_reply,
                   statusVars, matcherVars>>

\* A request the framework rejects before the handler runs: 422, nothing changes.
RejectedByValidation(endpoint, request) ==
    /\ pricing_reply' = Some(Reply(endpoint, request, 422, "validation error", None))
    /\ UNCHANGED <<wordpressVars, mailchimpVars, pricing_data, pricing_data_cached, analyticsVars, statusVars, matcherVars>>

\* POST /pricing/calculate: the body is validated against CalculateRequest
\* before calculate_pricing is called.
calculate_pricing(request) ==
    IF CalculateRequestValid(request)
    THEN calculate_pricing_handler("POST /pricing/calculate", request)
    ELSE RejectedByValidation("POST /pricing/calculate", request)

\* GET /pricing/calculate: the handler builds the CalculateRequest itself; the
\* ValidationError of a negative count is raised inside the handler, where
\* nothing catches it, and the framework answers 500.
calculate_pricing_get(input_tokens, output_tokens, selected_model) ==
    LET request == CalculateRequest(input_tokens, output_tokens, selected_model)
    IN  IF CalculateRequestValid(request)
        THEN calculate_pricing_handler("GET /pricing/calculate", request)
        ELSE /\ pricing_reply' = Some(Reply("GET /pricing/calculate", request, 500,
                                            "Internal Server Error", None))
             /\ UNCHANGED <<wordpressVars, mailchimpVars, pricing_data, pricing_data_cached, analyticsVars, statusVars,
                            matcherVars>>

\* The request model of compare: models has min_length=2 and max_length=5,
\* both token counts have ge=0.
CompareRequest(models, input_tokens_monthly, output_tokens_monthly) ==
    [models |-> models,
     input_tokens_monthly |-> input_tokens_monthly,
     output_tokens_monthly |-> output_tokens_monthly]
\* The request model with min_length=1.
CompareRequestValid_one_key_enough(request) ==
    /\ Len(request.models) >= 1 /\ Len(request.models) <= 5
    /\ request.input_tokens_monthly >= 0 /\ request.output_tokens_monthly >= 0
CompareRequestValid(request) ==
    /\ Len(request.models) >= 2 /\ Len(request.models) <= 5
    /\ request.input_tokens_monthly >= 0 /\ request.output_tokens_monthly >= 0

\* "/" in model_key, and model_key.split("/", 1)
HasSlash(model_key) == \E i \in 1..Len(model_key) : model_key[i] = "/"
FirstSlash(model_key) ==
    CHOOSE i \in 1..Len(model_key) :
        model_key[i] = "/" /\ \A j \in 1..(i - 1) : model_key[j] # "/"
SplitProvider(model_key) == SubSeq(model_key, 1, FirstSlash(model_key) - 1)
SplitModel(model_key) == SubSeq(model_key, FirstSlash(model_key) + 1, Len(model_key))

\* provider_id in pricing_data["providers"], pricing_data["providers"][provider_id],
\* and the same for the models of a provider.
HasProvider(catalog, provider_id) ==
    \E k \in 1..Len(catalog.providers) : catalog.providers[k].id = provider_id
ProviderOf(catalog, provider_id) ==
    catalog.providers[CHOOSE k \in 1..Len(catalog.providers) :
                          catalog.providers[k].id = provider_id]
HasModel(provider_data, model_id) ==
    \E k \in 1..Len(provider_data.models) : provider_data.models[k].id = model_id
ModelOf(provider_data, model_id) ==
    provider_data.models[CHOOSE k \in 1..Len(provider_data.models) :
                             provider_data.models[k].id = model_id]

\* The HTTPException of a key the loop of compare_models refuses, None for a
\* key of the catalog.
KeyError(catalog, model_key) ==
    IF ~HasSlash(model_key)
    THEN Some([status_code |-> 400, detail |-> "Invalid model format", subject |-> model_key])
    ELSE IF ~HasProvider(catalog, SplitProvider(model_key))
    THEN Some([status_code |-> 400, detail |-> "Unknown provider",
               subject |-> SplitProvider(model_key)])
    ELSE IF ~HasModel(ProviderOf(catalog, SplitProvider(model_key)), SplitModel(model_key))
    THEN Some([status_code |-> 400, detail |-> "Unknown model", subject |-> model_key])
    ELSE None

\* The entry appended to compared_models for a key of the catalog.
compared_entry(catalog, model_key, input_tokens, output_tokens) ==
    LET provider_data == ProviderOf(catalog, SplitProvider(model_key))
        model_data == ModelOf(provider_data, SplitModel(model_key))
        costs == calculate_model_cost(input_tokens, output_tokens,
                                      model_data.input_per_1m, model_data.output_per_1m)
    IN  [provider |-> provider_data.id,
         provider_name |-> provider_data.name,
         model |-> model_data.id,
         model_name |-> model_data.name,
         monthly_cost |-> costs.total,
         input_cost |-> costs.input_cost,
         output_cost |-> costs.output_cost]

\* A loop that goes on after a refused key and reports the last one.
compare_loop_reports_last_error(catalog, model_keys) ==
    LET bad == {k \in 1..Len(model_keys) : KeyError(catalog, model_keys[k]) # None}
    IN  IF bad = {} THEN None
        ELSE KeyError(catalog, model_keys[CHOOSE k \in bad : \A k2 \in bad : k2 <= k])

\* The loop over model_keys raises at the first key it refuses.
compare_loop(catalog, model_keys) ==
    LET bad == {k \in 1..Len(model_keys) : KeyError(catalog, model_keys[k]) # None}
    IN  IF bad = {} THEN None
        ELSE KeyError(catalog, model_keys[CHOOSE k \in bad : \A k2 \in bad : k <= k2])

\* result_models with enumerate(compared_models) counting from 0.
result_models_ranked_from_zero(compared_models) ==
    LET cheapest_cost == compared_models[1].monthly_cost
    IN  [k \in 1..Len(compared_models) |->
            LET model == compared_models[k]
                cost_vs_cheapest_amount == model.monthly_cost - cheapest_cost
            IN  [provider |-> model.provider,
                 provider_name |-> model.provider_name,
                 model |-> model.model,
                 model_name |-> model.model_name,
                 monthly_cost |-> model.monthly_cost,
                 input_cost |-> model.input_cost,
                 output_cost |-> model.output_cost,
                 cost_rank |-> k - 1,
                 cost_vs_cheapest |->
                     IF cheapest_cost > 0
                     THEN round(cost_vs_cheapest_amount * 1000, cheapest_cost) ELSE 0,
                 cost_vs_cheapest_amount |-> round(cost_vs_cheapest_amount, 100)]]

\* The ComparedModel list built by enumerate(compared_models, 1):
\* cost_vs_cheapest in tenths of a percent, cost_vs_cheapest_amount in cents.
result_models(compared_models) ==
    LET cheapest_cost == compared_models[1].monthly_cost
    IN  [k \in 1..Len(compared_models) |->
            LET model == compared_models[k]
                cost_vs_cheapest_amount == model.monthly_cost - cheapest_cost
            IN  [provider |-> model.provider,
                 provider_name |-> model.provider_name,
                 model |-> model.model,
                 model_name |-> model.model_name,
                 monthly_cost |-> model.monthly_cost,
                 input_cost |-> model.input_cost,
                 output_cost |-> model.output_cost,
                 cost_rank |-> k,
                 cost_vs_cheapest |->
                     IF cheapest_cost > 0
                     THEN round(cost_vs_cheapest_amount * 1000, cheapest_cost) ELSE 0,
                 cost_vs_cheapest_amount |-> round(cost_vs_cheapest_amount, 100)]]

\* The CompareResponse of a request whose keys are all of the catalog.
CompareResponse(catalog, request) ==
    LET input_tokens == request.input_tokens_monthly
        output_tokens == request.output_tokens_monthly
        model_keys == request.models
        compared_models ==
            sort_by_monthly_cost([k \in 1..Len(model_keys) |->
                compared_entry(catalog, model_keys[k], input_tokens, output_tokens)])
        cheapest_cost == compared_models[1].monthly_cost
        last == compared_models[Len(compared_models)]
    IN  [success |-> TRUE,
         models |-> result_models(compared_models),
         cheapest |-> ModelKey(compared_models[1].provider, compared_models[1].model),
         most_expensive |-> ModelKey(last.provider, last.model),
         max_savings |-> round(last.monthly_cost - cheapest_cost, 100),
         usage |-> [input_tokens |-> input_tokens, output_tokens |-> output_tokens]]

\* POST /pricing/compare: the body is validated against CompareRequest before
\* compare_models is called.  A missing catalog file raises FileNotFoundError,
\* which the handler answers with 500 through `except Exception`.
compare_models(request) ==
    IF ~CompareRequestValid(request)
    THEN RejectedByValidation("POST /pricing/compare", request)
    ELSE /\ IF pricing_data = None
            THEN /\ pricing_reply' = Some(Reply("POST /pricing/compare", request, 500,
                                                "Error comparing models", None))
                 /\ UNCHANGED pricing_data_cached
            ELSE /\ pricing_data_cached' = TRUE
                 /\ LET error == compare_loop(pricing_data[1], request.models)
                    IN  pricing_reply' =
                            IF error # None
                            THEN Some(Reply("POST /pricing/compare", request,
                                            error[1].status_code,
                                            [detail |-> error[1].detail,
                                             subject |-> error[1].subject], None))
                            ELSE Some(Reply("POST /pricing/compare", request, 200, "",
                                            Some(CompareResponse(pricing_data[1], request))))
         /\ UNCHANGED <<wordpressVars, mailchimpVars, pricing_data, analyticsVars, statusVars, matcherVars>>

\* GET /analytics/stats
get_stats ==
    /\ stats_reply' = Some([success |-> TRUE, data |-> stats])
    /\ UNCHANGED <<wordpressVars, mailchimpVars, stats, decode_reply, reset_reply, sent, calc_calls, statusVars,
                   pricingVars, matcherVars>>

\* ------------------------------------------------------ pricing requests
KeyGpt4o == <<"o", "p", "e", "n", "a", "i", "/", "g", "p", "t", "-", "4", "o">>
KeyMini == <<"o", "p", "e", "n", "a", "i", "/", "g", "p", "t", "-", "4", "o", "-", "m", "i", "n", "i">>
KeySonnet == <<"a", "n", "t", "h", "r", "o", "p", "i", "c", "/", "c", "l", "a", "u", "d", "e", "-", "s", "o", "n", "n", "e", "t", "-", "4", "5">>
KeyGemini == <<"g", "o", "o", "g", "l", "e", "/", "g", "e", "m", "i", "n", "i", "-", "p", "r", "o">>
KeyNoSlash == <<"i", "n", "v", "a", "l", "i", "d", "-", "m", "o", "d", "e", "l">>
KeyUnknownProvider == <<"u", "n", "k", "n", "o", "w", "n", "/", "m", "o", "d", "e", "l">>
KeyUnknownModel == <<"o", "p", "e", "n", "a", "i", "/", "u", "n", "k", "n", "o", "w", "n", "-", "m", "o", "d", "e", "l">>

CatalogKeys == {KeyGpt4o, KeyMini, KeySonnet, KeyGemini}
ModelKeys == CatalogKeys \cup {KeyNoSlash, KeyUnknownProvider, KeyUnknownModel}

InputTokenCounts == {-1, 0, 16, 1000000}
OutputTokenCounts == {-1, 0, 3, 500000, 1000000}
SelectedModels == {None, Some(KeyGpt4o), Some(KeyUnknownProvider)}
CalculateRequests ==
    {CalculateRequest(i, o, m) :
        i \in InputTokenCounts, o \in OutputTokenCounts, m \in SelectedModels}

\* Every list of at most MaxListLen keys, and lists of 4, 5 and 6 keys: the
\* first keys of KeyCycle, as they are and with the last key replaced.
KeyCycle == <<KeyGpt4o, KeySonnet, KeyGemini, KeyMini, KeyGpt4o, KeyGemini>>
KeyLists ==
    UNION {[1..n -> ModelKeys] : n \in 0..MaxListLen}
    \cup {SubSeq(KeyCycle, 1, n) : n \in 4..6}
    \cup {[SubSeq(KeyCycle, 1, n) EXCEPT ![n] = k] : n \in 4..6, k \in ModelKeys}
CompareTokens == {<<0, 0>>, <<16, 3>>, <<1000000, 500000>>, <<-1, 0>>}
CompareRequests ==
    {CompareRequest(models, t[1], t[2]) : models \in KeyLists, t \in CompareTokens}

InitPricing(catalogs) ==
    /\ pricing_data \in catalogs
    /\ pricing_data_cached = FALSE
    /\ pricing_reply = None

\* ------------------------------------ match_error_pattern and decode_error
\* A catalog with patterns of 1, 2, 4 and 6 keywords, and the same in reverse.
MatcherPatterns ==
    << Pattern("auth", <<<<"A", "P", "I", " ", "k", "e", "y">>, <<"i", "n", "v", "a", "l", "i", "d">>>>),
       Pattern("rate_limit", <<<<"r", "a", "t", "e", " ", "l", "i", "m", "i", "t">>, <<"4", "2", "9">>, <<"e", "x", "c", "e", "e", "d", "e", "d">>,
           <<"t", "o", "o", " ", "m", "a", "n", "y", " ", "r", "e", "q", "u", "e", "s", "t", "s">>, <<"t", "h", "r", "o", "t", "t", "l", "e", "d">>, <<"s", "l", "o", "w", " ", "d", "o", "w", "n">>>>),
       Pattern("quota", <<<<"q", "u", "o", "t", "a">>>>),
       Pattern("context_length", <<<<"c", "o", "n", "t", "e", "x", "t">>, <<"l", "e", "n", "g", "t", "h">>, <<"t", "o", "k", "e", "n", "s">>, <<"m", "a", "x", "i", "m", "u", "m">>>>) >>
Reversed(s) == [i \in 1..Len(s) |-> s[Len(s) + 1 - i]]
MatcherCatalogs == {MatcherPatterns, Reversed(MatcherPatterns)}

\* The messages: at most MaxPhrases of these phrases, joined by blanks.
Phrases ==
    { <<"I", "n", "v", "a", "l", "i", "d">>,
      <<"A", "P", "I", " ", "k", "e", "y">>,
      <<"R", "a", "t", "e", " ", "L", "i", "m", "i", "t">>,
      <<"4", "2", "9", " ", "e", "x", "c", "e", "e", "d", "e", "d">>,
      <<"q", "u", "o", "t", "a">>,
      <<"c", "o", "n", "t", "e", "x", "t", " ", "l", "e", "n", "g", "t", "h">>,
      <<"z", "z", "z">> }
RECURSIVE Joined(_)
Joined(words) ==
    IF words = <<>> THEN <<>>
    ELSE IF Len(words) = 1 THEN words[1]
    ELSE words[1] \o <<" ">> \o Joined(Tail(words))
MatcherMessages == {Joined(words) : words \in UNION {[1..n -> Phrases] : n \in 0..MaxPhrases}}

\* A call of match_error_pattern with the message and a pattern.
CallMatchErrorPattern(pattern) ==
    /\ match_call' = Some([fn |-> "match_error_pattern",
                           pattern |-> pattern,
                           result |-> match_error_pattern(match_message, pattern)])
    /\ UNCHANGED <<wordpressVars, mailchimpVars, match_message, statusVars, analyticsVars, pricingVars>>

\* A call of decode_error with the message and a catalog.
CallDecodeError(patterns) ==
    /\ match_call' = Some([fn |-> "decode_error",
                           patterns |-> patterns,
                           result |-> decode_error(match_message, patterns)])
    /\ UNCHANGED <<wordpressVars, mailchimpVars, match_message, statusVars, analyticsVars, pricingVars>>

InitMatcher(messages) ==
    /\ match_message \in messages
    /\ match_call = None


\* ------------------------------------------------- services/wordpress.py
MAX_RETRIES == 3
RETRY_DELAY_SECONDS == 5
RETRYABLE_STATUS_CODES == {429, 500, 502, 503, 504}

\* 2 ** n
RECURSIVE Pow2(_)
Pow2(n) == IF n = 0 THEN 1 ELSE 2 * Pow2(n - 1)

\* How a requests.request call ends: with a response, with a
\* requests.RequestException (connection error, timeout), or with another
\* exception.
HttpResponse(status_code) == [kind |-> "response", status_code |-> status_code]
RequestException == [kind |-> "RequestException", status_code |-> 0]
OtherException == [kind |-> "Exception", status_code |-> 0]

\* What _request_with_retry hands to its caller: the response with its JSON
\* body (a list of pages), or the exception raised.
Returned(status_code, json) ==
    [kind |-> "response", status_code |-> status_code, json |-> json]
Raise(kind) == [kind |-> kind, status_code |-> 0, json |-> <<>>]

\* wait_time = RETRY_DELAY_SECONDS * (2 ** attempt), as a variant doubling
\* nothing would compute it.
wait_time_constant(att) == RETRY_DELAY_SECONDS

\* wait_time = RETRY_DELAY_SECONDS * (2 ** attempt)
wait_time(att) == RETRY_DELAY_SECONDS * Pow2(att)

\* The loop body of _request_with_retry, as a variant that sleeps and goes on
\* after every status that is not a success would run it.
iteration_retries_every_failure(outcome, att, max_retries) ==
    IF outcome.kind = "response"
    THEN IF outcome.status_code \in {200, 201} THEN "return"
         ELSE IF att < max_retries THEN "sleep" ELSE "return"
    ELSE IF outcome.kind = "RequestException"
    THEN IF att < max_retries THEN "sleep" ELSE "raise"
    ELSE "raise"

\* The loop body of _request_with_retry for attempt att, given how
\* requests.request ended: return the response, sleep and go on, or raise.
iteration(outcome, att, max_retries) ==
    IF outcome.kind = "response"
    THEN IF outcome.status_code \notin RETRYABLE_STATUS_CODES THEN "return"
         ELSE IF att < max_retries THEN "sleep" ELSE "return"
    ELSE IF outcome.kind = "RequestException"
    THEN IF att < max_retries THEN "sleep" ELSE "raise"
    ELSE "raise"

\* The slug in the frontmatter of the file cmd_push is called with, and the
\* slug of another page of the site.
PushSlug == "ai-pricing-calculator"
OtherSlug == "ai-error-decoder"

Page(id, slug, updates) == [id |-> id, slug |-> slug, updates |-> updates]

\* WordPress answering a request with a success status: GET /pages?slug=...
\* lists the pages with the slug, POST /pages adds a page, POST /pages/{id}
\* updates the page.
SiteAfter(site, method, target) ==
    IF method = "create_page" THEN Append(site, Page(Len(site) + 1, PushSlug, 0))
    ELSE IF method = "update_page"
    THEN [i \in 1..Len(site) |->
            IF site[i].id = target THEN Page(site[i].id, site[i].slug, site[i].updates + 1)
            ELSE site[i]]
    ELSE site

HasPushSlug(page) == page.slug = PushSlug

JsonOf(site, method, target) ==
    IF method = "get_page_by_slug" THEN Take(SelectSeq(site, HasPushSlug), 1)
    ELSE IF method = "create_page" THEN <<site[Len(site)]>>
    ELSE SelectSeq(site, LAMBDA page : page.id = target)

\* One attempt of _request_with_retry: requests.request ends with outcome,
\* and the loop returns, raises, or sleeps and goes on to the next attempt.
request_with_retry(outcome) ==
    /\ wp_pc # "idle"
    /\ retry_result = None
    /\ LET target == IF existing = None THEN 0 ELSE existing[1].id
           success == outcome.kind = "response" /\ outcome.status_code \in {200, 201}
           site == IF success THEN SiteAfter(wp_site, wp_pc, target) ELSE wp_site
           json == IF success THEN JsonOf(site, wp_pc, target) ELSE <<>>
           does == iteration(outcome, attempt, MAX_RETRIES)
       IN  /\ wp_site' = site
           /\ outcomes' = Append(outcomes, outcome)
           /\ IF does = "sleep"
              THEN /\ sleeps' = Append(sleeps, wait_time(attempt))
                   /\ attempt' = attempt + 1
                   /\ UNCHANGED retry_result
              ELSE /\ retry_result' =
                          Some(IF does = "return"
                               THEN Returned(outcome.status_code, json)
                               ELSE Raise(outcome.kind))
                   /\ UNCHANGED <<sleeps, attempt>>
    /\ UNCHANGED <<wp_pc, existing, pushes, push_result>>
    /\ UNCHANGED <<statusVars, analyticsVars, pricingVars, matcherVars, mailchimpVars>>

\* get_page_by_slug, from what _request_with_retry handed back: the first
\* page of a 200 response, None for every other status and every exception.
get_page_by_slug(result) ==
    IF result.kind = "response" /\ result.status_code = 200 /\ result.json # <<>>
    THEN Some(result.json[1])
    ELSE None

\* create_page and update_page, from what _request_with_retry handed back:
\* the page of a 200 or 201 response, None otherwise.
page_written(result) ==
    IF result.kind = "response" /\ result.status_code \in {200, 201}
    THEN Some(result.json[1])
    ELSE None

\* --------------------------------------------------- scripts/wp_pages.py
\* cmd_push starts: the file exists and has a slug, and the lookup begins.
cmd_push ==
    /\ wp_pc = "idle"
    /\ pushes < MaxPushes
    /\ wp_pc' = "get_page_by_slug"
    /\ existing' = None
    /\ attempt' = 0
    /\ outcomes' = <<>>
    /\ sleeps' = <<>>
    /\ retry_result' = None
    /\ UNCHANGED <<wp_site, pushes, push_result>>
    /\ UNCHANGED <<statusVars, analyticsVars, pricingVars, matcherVars, mailchimpVars>>

\* cmd_push after the lookup: update the page found, create one otherwise.
cmd_push_existing ==
    /\ wp_pc = "get_page_by_slug"
    /\ retry_result # None
    /\ existing' = get_page_by_slug(retry_result[1])
    /\ wp_pc' = IF existing' # None THEN "update_page" ELSE "create_page"
    /\ attempt' = 0
    /\ outcomes' = <<>>
    /\ sleeps' = <<>>
    /\ retry_result' = None
    /\ UNCHANGED <<wp_site, pushes, push_result>>
    /\ UNCHANGED <<statusVars, analyticsVars, pricingVars, matcherVars, mailchimpVars>>

\* cmd_push after update_page or create_page: the line printed and the value
\* returned (None, written 0, or 1).
cmd_push_result ==
    /\ wp_pc \in {"update_page", "create_page"}
    /\ retry_result # None
    /\ LET result == page_written(retry_result[1])
           action == IF existing # None THEN "Updated" ELSE "Created"
       IN  push_result' = Some([action |-> action,
                                failed |-> result = None,
                                returned |-> IF result = None THEN 1 ELSE 0])
    /\ pushes' = pushes + 1
    /\ wp_pc' = "idle"
    /\ existing' = None
    /\ attempt' = 0
    /\ outcomes' = <<>>
    /\ sleeps' = <<>>
    /\ retry_result' = None
    /\ UNCHANGED wp_site
    /\ UNCHANGED <<statusVars, analyticsVars, pricingVars, matcherVars, mailchimpVars>>

\* Every way a requests.request call can end, and the few met after the
\* first lookup.
WpStatusCodes == {200, 201, 404} \cup RETRYABLE_STATUS_CODES
WpOutcomes == {HttpResponse(s) : s \in WpStatusCodes} \cup {RequestException, OtherException}
WpFewOutcomes == {HttpResponse(200), HttpResponse(404), HttpResponse(503), RequestException}

\* The sites cmd_push can meet: without a page of the slug, or with one.
WpSites == {<<>>, <<Page(1, OtherSlug, 0)>>, <<Page(1, OtherSlug, 0), Page(2, PushSlug, 0)>>}

InitWordPress(sites) ==
    /\ wp_site \in sites
    /\ wp_pc = "idle"
    /\ existing = None
    /\ attempt = 0
    /\ outcomes = <<>>
    /\ sleeps = <<>>
    /\ retry_result = None
    /\ pushes = 0
    /\ push_result = None

\* --------------------------------------- api/shared.py: subscribe_email
\* bool(s) of an Optional str: os.getenv gives None or the value, and the
\* empty string is false too.
Truthy(value) == value # None /\ value[1] # <<>>

\* hashlib.md5(b).hexdigest(): the digest stands for the bytes it was computed
\* from, two digests being equal exactly when the bytes are.
md5_hexdigest(b) == [md5 |-> b]

\* subscriber_hash = hashlib.md5(email.lower().encode()).hexdigest()
subscriber_hash(email) == md5_hexdigest(Lower(email))

ToolTag(tool_name) == <<"t", "o", "o", "l", ":">> \o tool_name

\* subscribe_email, as a variant reporting the configuration instead of the
\* outcome of the call would answer.
subscribe_email_result_synced_if_configured(configured, mailchimp, success_message) ==
    [success |-> TRUE,
     message |-> success_message,
     mailchimp_synced |-> configured]

\* The dictionary subscribe_email returns; mailchimp is how the try block
\* ended when Mailchimp is configured.
subscribe_email_result(configured, mailchimp, success_message) ==
    [success |-> TRUE,
     message |-> success_message,
     mailchimp_synced |-> configured /\ mailchimp = "returned"]

\* subscribe_email(email, tool_name, interest_tags, success_message).  With
\* Mailchimp configured the try block ends in one of three ways: the import
\* or the client raises before the call ("no_client"), set_list_member
\* raises ("raised"), or it returns ("returned") and the member is stored
\* under the subscriber hash.
subscribe_email(email, tool_name, interest_tags, success_message, mailchimp) ==
    /\ subscriptions < MaxSubscribes
    /\ subscriptions' = subscriptions + 1
    /\ LET configured == Truthy(environ.MAILCHIMP_API_KEY) /\ Truthy(environ.MAILCHIMP_LIST_ID)
           tags == <<ToolTag(tool_name)>> \o interest_tags
           member_data == [email_address |-> email,
                           status_if_new |-> "subscribed",
                           status |-> "subscribed",
                           tags |-> tags]
           called == configured /\ mailchimp \in {"raised", "returned"}
       IN  /\ set_list_member' =
                  IF called
                  THEN Some([list_id |-> environ.MAILCHIMP_LIST_ID[1],
                             subscriber_hash |-> subscriber_hash(email),
                             member_data |-> member_data,
                             raised |-> mailchimp = "raised"])
                  ELSE None
           /\ list_members' =
                  IF called /\ mailchimp = "returned"
                  THEN DictSet(list_members, subscriber_hash(email), member_data)
                  ELSE list_members
           /\ subscribe_reply' =
                  Some(subscribe_email_result(configured, mailchimp, success_message))
    /\ UNCHANGED environ
    /\ UNCHANGED <<statusVars, analyticsVars, pricingVars, matcherVars, wordpressVars>>

\* The values of an environment variable: unset, empty, set.
EnvValues == {None, Some(<<>>), Some(<<"k">>)}
Environs == [MAILCHIMP_API_KEY : EnvValues, MAILCHIMP_LIST_ID : EnvValues]
EnvUnset == [MAILCHIMP_API_KEY |-> None, MAILCHIMP_LIST_ID |-> None]

EmailLower == <<"a", "@", "b", ".", "c">>
EmailUpper == <<"A", "@", "B", ".", "c">>
EmailOther == <<"d", "@", "b", ".", "c">>
Emails == {EmailLower, EmailUpper, EmailOther}
ToolNames == {<<"s", "t", "a", "t", "u", "s">>}
InterestTags == {<<>>, << <<"i", ":", "x">> >>}
SuccessMessages == {<<"S", "u", "b", "s", "c", "r", "i", "b", "e", "d", "!">>, <<"O", "K">>}
MailchimpOutcomes == {"no_client", "raised", "returned"}

InitMailchimp(environs) ==
    /\ environ \in environs
    /\ list_members = EmptyDict
    /\ set_list_member = None
    /\ subscribe_reply = None
    /\ subscriptions = 0

\* ------------------------------------------------------------------ time
\* The clock advances in steps of half the cache lifetime, so that a request
\* can come 0, 30, 60, ... seconds after the cache timestamp.
TickSeconds == STATUS_CACHE_TTL \div 2

\* Time passes.
Tick(d) ==
    /\ now + d <= MaxTicks * TickSeconds
    /\ now' = now + d
    /\ UNCHANGED <<wordpressVars, mailchimpVars, providers_config, status_cache, status_cache_time, pc,
                   current_time, tasks, completed, probed, response, served,
                   analyticsVars, pricingVars, matcherVars>>

\* ------------------------------------------------------- specifications
InitStatus(registries) ==
    /\ now = 0
    /\ providers_config \in registries
    /\ status_cache = None
    /\ status_cache_time = 0
    /\ pc = [r \in Requests |-> "idle"]
    /\ current_time = [r \in Requests |-> 0]
    /\ tasks = [r \in Requests |-> <<>>]
    /\ completed = [r \in Requests |-> <<>>]
    /\ probed = [r \in Requests |-> <<>>]
    /\ response = [r \in Requests |-> None]
    /\ served = [r \in Requests |-> "none"]

\* Concurrent requests against the cache, with time.
Init == InitStatus({<<OpenAI, Anthropic>>}) /\ InitAnalytics
    /\ InitPricing({Some(CatalogFull)}) /\ InitMatcher({<<>>})
    /\ InitWordPress({<<>>}) /\ InitMailchimp({EnvUnset})

Next ==
    \/ \E r \in Requests : CheckCache(r)
    \/ \E r \in Requests, i \in 1..2, o \in FewOutcomes : ProbeDone(r, i, o)
    \/ \E r \in Requests : Finish(r)
    \/ Tick(TickSeconds)

Spec == Init /\ [][Next]_vars

\* One request at a time, every registry, every kind of probe outcome.
InitAggregate == InitStatus(Registries) /\ InitAnalytics
    /\ InitPricing({Some(CatalogFull)}) /\ InitMatcher({<<>>})
    /\ InitWordPress({<<>>}) /\ InitMailchimp({EnvUnset})

NextAggregate ==
    \/ CheckCache("req1")
    \/ \E i \in 1..4, o \in OutcomesFor(providers_config) : ProbeDone("req1", i, o)
    \/ Finish("req1")

SpecAggregate == InitAggregate /\ [][NextAggregate]_vars

\* Decode calls and resets of the usage counters, with time.
InitDecoder == InitStatus({<<OpenAI>>}) /\ InitAnalytics
    /\ InitPricing({Some(CatalogFull)}) /\ InitMatcher({<<>>})
    /\ InitWordPress({<<>>}) /\ InitMailchimp({EnvUnset})

NextDecoder ==
    \/ \E error_message \in Messages : decode_error_message(error_message)
    \/ reset_stats
    \/ Tick(MaxTicks * TickSeconds)

SpecDecoder == InitDecoder /\ [][NextDecoder]_vars

\* The pricing endpoints, every catalog.  The first request after start is any
\* request; the later ones are a few, which meet the catalog already loaded.
LaterCalculations ==
    {CalculateRequest(1000000, 500000, None), CalculateRequest(-1, 0, None)}
LaterComparisons ==
    {CompareRequest(<<KeyGpt4o, KeyMini>>, 1000000, 500000),
     CompareRequest(<<KeyGpt4o>>, 1000000, 500000),
     CompareRequest(<<KeyGpt4o, KeyNoSlash>>, 1000000, 500000)}

InitPricingSpec ==
    InitStatus({<<OpenAI>>}) /\ InitAnalytics /\ InitPricing(Catalogs) /\ InitMatcher({<<>>})
    /\ InitWordPress({<<>>}) /\ InitMailchimp({EnvUnset})

NextPricing ==
    \/ \E request \in (IF pricing_reply = None THEN CalculateRequests
                        ELSE LaterCalculations) : calculate_pricing(request)
    \/ \E request \in (IF pricing_reply = None THEN CalculateRequests
                        ELSE LaterCalculations) :
           calculate_pricing_get(request.input_tokens_monthly,
                                 request.output_tokens_monthly,
                                 request.selected_model)
    \/ \E request \in (IF pricing_reply = None THEN CompareRequests
                        ELSE LaterComparisons) : compare_models(request)

SpecPricing == InitPricingSpec /\ [][NextPricing]_vars

\* The usage counters under the endpoints that reach them, and their reads
\* and resets.
AnalyticsMessages == {MsgRateLimit, MsgShort}
AnalyticsRequests ==
    {CalculateRequest(i, 500000, None) : i \in {-1, 16, 1000000}}

InitAnalyticsSpec ==
    InitStatus({<<OpenAI>>}) /\ InitAnalytics /\ InitPricing({Some(CatalogFull)})
    /\ InitMatcher({<<>>})
    /\ InitWordPress({<<>>}) /\ InitMailchimp({EnvUnset})

NextAnalytics ==
    \/ \E error_message \in AnalyticsMessages : decode_error_message(error_message)
    \/ \E request \in AnalyticsRequests : calculate_pricing(request)
    \/ \E request \in AnalyticsRequests :
           calculate_pricing_get(request.input_tokens_monthly,
                                 request.output_tokens_monthly,
                                 request.selected_model)
    \/ reset_stats
    \/ get_stats

SpecAnalytics == InitAnalyticsSpec /\ [][NextAnalytics]_vars

\* match_error_pattern and decode_error, applied to one message.
InitMatcherSpec ==
    InitStatus({<<OpenAI>>}) /\ InitAnalytics /\ InitPricing({Some(CatalogFull)})
    /\ InitMatcher(MatcherMessages)
    /\ InitWordPress({<<>>}) /\ InitMailchimp({EnvUnset})

NextMatcher ==
    \/ \E p \in 1..Len(MatcherPatterns) : CallMatchErrorPattern(MatcherPatterns[p])
    \/ \E patterns \in MatcherCatalogs : CallDecodeError(patterns)

SpecMatcher == InitMatcherSpec /\ [][NextMatcher]_vars

\* cmd_push run after run against a site: the first lookup meets every way a
\* request can end, the later calls a few.
InitWordPressSpec ==
    InitStatus({<<OpenAI>>}) /\ InitAnalytics /\ InitPricing({Some(CatalogFull)})
    /\ InitMatcher({<<>>}) /\ InitWordPress(WpSites) /\ InitMailchimp({EnvUnset})

NextWordPress ==
    \/ cmd_push
    \/ \E outcome \in (IF pushes = 0 /\ wp_pc = "get_page_by_slug" THEN WpOutcomes
                        ELSE WpFewOutcomes) : request_with_retry(outcome)
    \/ cmd_push_existing
    \/ cmd_push_result

SpecWordPress == InitWordPressSpec /\ [][NextWordPress]_vars

\* Every requests.request call is made with a timeout and every sleep ends, so
\* an attempt that can be made is made, and cmd_push goes on after a call.
SpecWordPressLive ==
    /\ SpecWordPress
    /\ WF_vars(\E outcome \in WpOutcomes : request_with_retry(outcome))
    /\ WF_vars(cmd_push_existing)
    /\ WF_vars(cmd_push_result)

\* subscribe_email under every configuration of the environment.
InitSubscribe ==
    InitStatus({<<OpenAI>>}) /\ InitAnalytics /\ InitPricing({Some(CatalogFull)})
    /\ InitMatcher({<<>>}) /\ InitWordPress({<<>>}) /\ InitMailchimp(Environs)

NextSubscribe ==
    \E email \in Emails, tool_name \in ToolNames, interest_tags \in InterestTags,
       success_message \in SuccessMessages, mailchimp \in MailchimpOutcomes :
        subscribe_email(email, tool_name, interest_tags, success_message, mailchimp)

SpecSubscribe == InitSubscribe /\ [][NextSubscribe]_vars

\* The four endpoints that validate their input, with valid and invalid
\* inputs.
ValidationMessages == {<<>>, MsgRateLimit, MsgShort}
ValidationRequests ==
    {CalculateRequest(i, 500000, None) : i \in {-1, 16}}
        \cup {CalculateRequest(16, -1, None)}

InitValidation ==
    InitStatus({<<OpenAI>>}) /\ InitAnalytics /\ InitPricing({Some(CatalogFull)})
    /\ InitMatcher({<<>>}) /\ InitWordPress({<<>>}) /\ InitMailchimp({EnvUnset})

NextValidation ==
    \/ \E error_message \in ValidationMessages : decode_error_message_post(error_message)
    \/ \E error_message \in ValidationMessages : decode_error_message_get(error_message)
    \/ \E request \in ValidationRequests : calculate_pricing(request)
    \/ \E request \in ValidationRequests :
           calculate_pricing_get(request.input_tokens_monthly,
                                 request.output_tokens_monthly,
                                 request.selected_model)

SpecValidation == InitValidation /\ [][NextValidation]_vars

\* Direct calls of track_pricing_calculation, and resets of the counters.
InitTracker ==
    InitStatus({<<OpenAI>>}) /\ InitAnalytics /\ InitPricing({Some(CatalogFull)})
    /\ InitMatcher({<<>>}) /\ InitWordPress({<<>>}) /\ InitMailchimp({EnvUnset})

NextTracker ==
    \/ \E input_tokens \in TrackedInputTokens, output_tokens \in TrackedOutputTokens :
           CallTrackPricingCalculation(input_tokens, output_tokens)
    \/ reset_stats

SpecTracker == InitTracker /\ [][NextTracker]_vars

\* ------------------------------------------------- properties: status cache
\* A call of request r starts 60 s or more after the cache timestamp, or with
\* no cached entry.
StaleAt(t) == status_cache = None \/ t - status_cache_time >= STATUS_CACHE_TTL

\* C1: a call of check_all_providers that starts less than 60 s after the cache
\* timestamp starts no probe, returns the cached payload as it is and leaves the
\* cache slot and its timestamp as they were; a call that starts 60 s or more
\* after it starts one probe per provider, and the payload it returns is stamped
\* at its completion (no earlier than its start, so later than the timestamp it
\* found) and becomes the cached one.
C1_CacheWindow ==
    [][\A r \in Requests :
        /\ CheckCache(r) =>
              IF ~StaleAt(now)
              THEN /\ served'[r] = "cache"
                   /\ pc'[r] = "done"
                   /\ tasks'[r] = <<>>
                   /\ response'[r] = status_cache
                   /\ status_cache' = status_cache
                   /\ status_cache_time' = status_cache_time
              ELSE /\ served'[r] = "fresh"
                   /\ pc'[r] = "probing"
                   /\ Len(tasks'[r]) = Len(providers_config)
                   /\ \A i \in 1..Len(tasks'[r]) : ~tasks'[r][i].done
        /\ Finish(r) =>
              /\ response'[r] # None
              /\ response'[r][1].last_updated = now
              /\ response'[r][1].last_updated >= current_time[r]
              /\ status_cache' = response'[r]
    ]_vars

\* One request was served the cached payload 30 s into its window, and another
\* one fetched a payload with a later last_updated once the window was over.
C1_Witness ==
    \E r1, r2 \in Requests :
        /\ served[r1] = "cache" /\ response[r1] # None
        /\ current_time[r1] - response[r1][1].last_updated = TickSeconds
        /\ served[r2] = "fresh" /\ response[r2] # None
        /\ pc[r2] = "done"
        /\ current_time[r2] >= current_time[r1] + TickSeconds
        /\ response[r2][1].last_updated > response[r1][1].last_updated
        /\ status_cache = response[r2]

\* ------------------------------------------- properties: one aggregation run
\* The finished probes of the request, as (outcome, task) pairs.
FinishedProbes ==
    {<<probed["req1"][i][1], tasks["req1"][i]>> :
        i \in {j \in 1..Len(tasks["req1"]) : tasks["req1"][j].done}}

\* What the classification makes of a probe that got a response.
RespondedAs(o, ps) ==
    IF o.status_code >= 500 THEN ps.status = "down"
    ELSE IF o.elapsed_ms >= LATENCY_DEGRADED_MS THEN ps.status = "degraded"
    ELSE ps.status = "operational" /\ ps.error = None

\* C2 as stated: an exception of any kind gives down with a non-empty error (a
\* timeout's names the timeout of 10 s); else a status >= 500 gives down whatever
\* the latency; else 2000 ms or more gives degraded; else operational, no error.
C2_Classification_AsStated ==
    \A p \in FinishedProbes :
        LET o == p[1]  t == p[2] IN
        /\ ~t.raised
        /\ IF o.exc # "none"
           THEN /\ t.value[1].status = "down"
                /\ t.value[1].error # None
                /\ Len(t.value[1].error[1]) > 0
                /\ o.exc = "timeout" =>
                      Contains(t.value[1].error[1], Dec(REQUEST_TIMEOUT_S))
           ELSE RespondedAs(o, t.value[1])

\* C2, amended: as stated for a timeout and a connection failure; any other
\* exception gives down with the first 100 characters of the exception's text as
\* the error, which is the empty string when the exception has no text.
C2_Classification ==
    \A p \in FinishedProbes :
        LET o == p[1]  t == p[2] IN
        /\ ~t.raised
        /\ IF o.exc \in {"timeout", "connect"}
           THEN /\ t.value[1].status = "down"
                /\ t.value[1].error # None
                /\ Len(t.value[1].error[1]) > 0
                /\ o.exc = "timeout" =>
                      Contains(t.value[1].error[1], Dec(REQUEST_TIMEOUT_S))
           ELSE IF o.exc = "other"
           THEN /\ t.value[1].status = "down"
                /\ t.value[1].error = Some(Take(o.text, 100))
                /\ Len(t.value[1].error[1]) <= 100
           ELSE RespondedAs(o, t.value[1])

\* A probe of the one-provider registry got a 503 after 2001 ms and is down.
C2_Witness ==
    \E p \in FinishedProbes :
        /\ p[1] = Responded(503, 2001)
        /\ p[2].value[1].status = "down"

\* The entries of a payload that carry the id of registry entry i.
EntriesOf(data, i) ==
    {k \in 1..Len(data.providers) : data.providers[k].id = providers_config[i].id}

\* A probe failed: it raised, or the response was a 5xx.
Failing(o) == o.exc # "none" \/ o.status_code >= 500

\* C3: an aggregation run never fails, whatever the probes meet; its result has
\* exactly one entry per registered provider, and a provider's entry is down
\* exactly when its own probe failed (a provider whose probe got a response below
\* 500 is degraded or operational by its own latency alone).
C3_FailureIsolation ==
    /\ served["req1"] # "error500"
    /\ (pc["req1"] = "done" /\ served["req1"] = "fresh") =>
          /\ response["req1"] # None
          /\ Len(response["req1"][1].providers) = Len(providers_config)
          /\ \A i \in 1..Len(providers_config) :
                LET data == response["req1"][1]
                    o == probed["req1"][i][1]
                IN  /\ Cardinality(EntriesOf(data, i)) = 1
                    /\ \A k \in EntriesOf(data, i) :
                          /\ data.providers[k].status = "down" <=> Failing(o)
                          /\ ~Failing(o) =>
                                (data.providers[k].status = "degraded"
                                    <=> o.elapsed_ms >= LATENCY_DEGRADED_MS)

\* A run over four providers ended with one provider down by an exception that
\* is neither a timeout nor a connection failure, and the three others up.
C3_Witness ==
    /\ pc["req1"] = "done" /\ served["req1"] = "fresh"
    /\ Len(providers_config) = 4
    /\ response["req1"] # None
    /\ response["req1"][1].down_count = 1
    /\ response["req1"][1].operational_count = 3
    /\ \E i \in 1..4 : probed["req1"][i][1].exc = "other"

\* The payloads in the model: each response and the cache slot.
Payloads ==
    {response[r][1] : r \in {q \in Requests : response[q] # None}}
        \cup (IF status_cache = None THEN {} ELSE {status_cache[1]})

RECURSIVE Tally(_, _)
Tally(ps, status) ==
    IF ps = <<>> THEN 0
    ELSE (IF Head(ps).status = status THEN 1 ELSE 0) + Tally(Tail(ps), status)

\* C5: in every status response, fresh or cached, the three counts add up to the
\* number of provider entries and each is the number of entries with its status.
C5_CountsAddUp ==
    \A d \in Payloads :
        /\ d.operational_count + d.degraded_count + d.down_count = Len(d.providers)
        /\ d.operational_count = Tally(d.providers, "operational")
        /\ d.degraded_count = Tally(d.providers, "degraded")
        /\ d.down_count = Tally(d.providers, "down")

\* A response served from the cache has a provider of each status.
C5_Witness ==
    /\ served["req1"] = "cache"
    /\ response["req1"] # None
    /\ response["req1"][1].operational_count >= 1
    /\ response["req1"][1].degraded_count >= 1
    /\ response["req1"][1].down_count >= 1

\* down before degraded before operational.
Severity(status) ==
    IF status = "down" THEN 0 ELSE IF status = "degraded" THEN 1 ELSE 2

\* The place of a provider id in the registry.
RegistryIndex(id) ==
    CHOOSE i \in 1..Len(providers_config) : providers_config[i].id = id

\* Entry a may stand directly before entry b: lower severity first, then the
\* lower display name, then the earlier registry entry.
InOrder(a, b) ==
    \/ Severity(a.status) < Severity(b.status)
    \/ /\ Severity(a.status) = Severity(b.status)
       /\ \/ StrLess(a.name, b.name)
          \/ a.name = b.name /\ RegistryIndex(a.id) < RegistryIndex(b.id)

\* C6: the provider list is ordered by severity (down, degraded, operational) and
\* within a status by display name ascending; entries equal in both stand in
\* registry order, so the list is a function of the probe outcomes and the same
\* for every order in which the probes complete.
C6_DeterministicOrder ==
    \A d \in Payloads :
        \A k \in 1..(Len(d.providers) - 1) : InOrder(d.providers[k], d.providers[k + 1])

\* The two providers named alike ended with the same status, the later registry
\* entry's probe completing first.
C6_Witness ==
    /\ pc["req1"] = "done" /\ response["req1"] # None
    /\ providers_config = <<OpenAI, AzureOpenAI, Anthropic>>
    /\ completed["req1"] = <<3, 2, 1>>
    /\ response["req1"][1].providers[1].id = "openai"
    /\ response["req1"][1].providers[2].id = "azure"
    /\ response["req1"][1].providers[3].id = "anthropic"
    /\ response["req1"][1].providers[3].status = "operational"

\* ------------------------------------------- properties: decoder and counters
ErrorDecoder == stats.error_decoder

\* C7: after any sequence of decode calls and resets, total == matched + unmatched.
C7_TotalIsMatchedPlusUnmatched ==
    ErrorDecoder.total = ErrorDecoder.matched + ErrorDecoder.unmatched

\* After a reset of counters that had counted, a match and a miss were counted.
C7_Witness ==
    /\ reset_reply # None
    /\ reset_reply[1].previous_stats.error_decoder.total >= 1
    /\ ErrorDecoder.matched >= 1
    /\ ErrorDecoder.unmatched >= 1

\* A capital letter and its small letter.
CasePairs ==
    { <<"A", "a">>, <<"B", "b">>, <<"C", "c">>, <<"D", "d">>, <<"E", "e">>, <<"F", "f">>,
      <<"G", "g">>, <<"H", "h">>, <<"I", "i">>, <<"J", "j">>, <<"K", "k">>, <<"L", "l">>,
      <<"M", "m">>, <<"N", "n">>, <<"O", "o">>, <<"P", "p">>, <<"Q", "q">>, <<"R", "r">>,
      <<"S", "s">>, <<"T", "t">>, <<"U", "u">>, <<"V", "v">>, <<"W", "w">>, <<"X", "x">>,
      <<"Y", "y">>, <<"Z", "z">> }

\* Two characters are the same letter, whatever their case.
SameLetter(a, b) == a = b \/ <<a, b>> \in CasePairs \/ <<b, a>> \in CasePairs

\* The keyword occurs in the message as a substring, case ignored.
OccursIgnoringCase(keyword, error_message) ==
    \E i \in 0..(Len(error_message) - Len(keyword)) :
        \A j \in 1..Len(keyword) : SameLetter(error_message[i + j], keyword[j])

\* Per message: some pattern of the catalog has a keyword that occurs in it.
SomeKeywordOccurs ==
    [error_message \in Messages |->
        \E p \in 1..Len(Patterns) :
            \E k \in 1..Len(Patterns[p].error_keywords) :
                OccursIgnoringCase(Patterns[p].error_keywords[k], error_message)]

\* C8: a decode call returns decoded == None exactly when no catalog pattern has
\* a keyword occurring in the message, case ignored; then the response has the
\* fixed, non-empty suggestions, and unmatched and total go up by one with
\* matched unchanged.  Otherwise suggestions is empty, and matched and total go
\* up by one with unmatched unchanged.
C8_DecodeOutcome ==
    [][\A error_message \in Messages :
        decode_error_message(error_message) =>
            LET reply == decode_reply'[1]
                before == stats.error_decoder
                after == stats'.error_decoder
            IN  /\ reply.decoded = None <=> ~SomeKeywordOccurs[error_message]
                /\ IF reply.decoded = None
                   THEN /\ reply.suggestions = GenericSuggestions
                        /\ Len(reply.suggestions) > 0
                        /\ after.unmatched = before.unmatched + 1
                        /\ after.total = before.total + 1
                        /\ after.matched = before.matched
                   ELSE /\ reply.suggestions = <<>>
                        /\ after.matched = before.matched + 1
                        /\ after.total = before.total + 1
                        /\ after.unmatched = before.unmatched
    ]_vars

\* The last call decoded nothing and got the suggestions, after a call that
\* matched a message which differs in case from the keywords.
C8_Witness ==
    /\ decode_reply # None
    /\ decode_reply[1].decoded = None
    /\ decode_reply[1].suggestions = GenericSuggestions
    /\ sent[MsgRateLimit] = 1
    /\ ErrorDecoder.matched = 1
    /\ ErrorDecoder.unmatched = 1

\* The messages decoded since the last reset that no pattern matches.
UnmatchedSent == {m \in Messages : sent[m] >= 1 /\ ~SomeKeywordOccurs[m]}

HexDigits == {"0", "1", "2", "3", "4", "5", "6", "7", "8", "9", "a", "b", "c", "d", "e", "f"}

\* C9: a message decoded n >= 1 times without a match since the last reset has
\* one gap entry, under the 12 hex characters of its hash, with count == n; there
\* are as many entries as such messages.
C9_GapPerMessage ==
    /\ \A m \in UnmatchedSent :
          LET msg_hash == sha256_hexdigest_12(m) IN
          /\ Len(msg_hash) = 12
          /\ \A i \in 1..12 : msg_hash[i] \in HexDigits
          /\ msg_hash \in DOMAIN ErrorDecoder.gaps
          /\ ErrorDecoder.gaps[msg_hash].count = sent[m]
    /\ Cardinality(DOMAIN ErrorDecoder.gaps) = Cardinality(UnmatchedSent)

\* A message decoded twice has one entry with count 2, and a message with the
\* same preview has an entry of its own.
C9_Witness ==
    /\ sent[MsgX51] = 2
    /\ sent[MsgX52] = 1
    /\ ErrorDecoder.gaps[sha256_hexdigest_12(MsgX51)].count = 2
    /\ ErrorDecoder.gaps[sha256_hexdigest_12(MsgX52)].count = 1
    /\ Cardinality(DOMAIN ErrorDecoder.gaps) = 2

\* C10 as stated: no text stored with the counters is the raw text of a message
\* that was decoded: a gap's key is 12 characters of hash, and its preview at
\* most 50 characters and an ellipsis.
C10_NoRawMessageStored ==
    \A m \in {x \in Messages : sent[x] >= 1} :
        \A msg_hash \in DOMAIN ErrorDecoder.gaps :
            /\ msg_hash # m
            /\ Len(msg_hash) = 12
            /\ ErrorDecoder.gaps[msg_hash].preview # m
            /\ Len(ErrorDecoder.gaps[msg_hash].preview) <= 53

\* ------------------------------------------- properties: reads and resets
\* Every counter of the three groups is 0, every token bucket is 0, and gaps,
\* models_not_found and by_provider are empty.
AllZero(st) ==
    /\ st.error_decoder.total = 0
    /\ st.error_decoder.matched = 0
    /\ st.error_decoder.unmatched = 0
    /\ DOMAIN st.error_decoder.gaps = {}
    /\ st.pricing_calculator.total = 0
    /\ \A b \in TokenBuckets : st.pricing_calculator.token_buckets[b] = 0
    /\ DOMAIN st.pricing_calculator.models_not_found = {}
    /\ st.status_page.total = 0
    /\ DOMAIN st.status_page.by_provider = {}

\* C11: a reset answers with previous_stats equal to the counters as they were
\* immediately before it and leaves every counter of the three groups at 0,
\* every token bucket at 0 and gaps, models_not_found and by_provider empty; a
\* read answers with the counters as they are and changes none, so that a read
\* that follows a reset reports the zeroed state.
C11_ResetReturnsOldAndZeroes ==
    [][ /\ (reset_reply' # reset_reply \/ (stats' # stats /\ AllZero(stats')))
            => /\ reset_reply' # None
               /\ reset_reply'[1].previous_stats = stats
               /\ AllZero(stats')
        /\ stats_reply' # stats_reply
            => /\ stats_reply'[1].data = stats
               /\ stats' = stats
               /\ (AllZero(stats) => AllZero(stats_reply'[1].data)) ]_vars

\* A reset has returned counters with decodes and a gap in them, the counters
\* are zero, and a read has reported them so.
C11_Witness ==
    /\ reset_reply # None
    /\ reset_reply[1].previous_stats.error_decoder.total >= 2
    /\ DOMAIN reset_reply[1].previous_stats.error_decoder.gaps # {}
    /\ AllZero(stats)
    /\ stats_reply # None
    /\ AllZero(stats_reply[1].data)
    /\ decode_reply # None

\* C12: after k calculation calls answered since the last reset,
\* pricing_calculator.total is k and the token buckets hold k in all.
C12_CalculationsCounted ==
    /\ stats.pricing_calculator.total = calc_calls
    /\ stats.pricing_calculator.token_buckets["under_1k"]
         + stats.pricing_calculator.token_buckets["1k_to_10k"]
         + stats.pricing_calculator.token_buckets["10k_to_100k"]
         + stats.pricing_calculator.token_buckets["over_100k"] = calc_calls

\* ------------------------------------------------- properties: calculate
\* A calculation was answered with its results.
Calculated ==
    /\ pricing_reply # None
    /\ pricing_reply[1].endpoint \in {"POST /pricing/calculate", "GET /pricing/calculate"}
    /\ pricing_reply[1].status_code = 200

CalculatedResults == pricing_reply[1].body[1].results

\* The catalog model a result entry stands for.
CatalogModelOf(entry) == ModelOf(ProviderOf(pricing_data[1], entry.provider), entry.model)

\* v is n / d rounded to the nearest whole unit, a tie to the even neighbour.
IsNearest(v, n, d) ==
    LET diff == IF v * d >= n THEN v * d - n ELSE n - v * d
    IN  2 * diff <= d /\ (2 * diff = d => v % 2 = 0)

\* C13 as stated: input_cost and output_cost are the two costs rounded to 4
\* decimals, and monthly_cost is the sum of those two rounded costs, rounded
\* to 4 decimals.
C13_CostRounding_AsStated ==
    Calculated =>
        \A k \in 1..Len(CalculatedResults) :
            LET entry == CalculatedResults[k]
                request == pricing_reply[1].request
            IN  /\ IsNearest(entry.input_cost,
                             request.input_tokens_monthly * CatalogModelOf(entry).input_per_1m,
                             10000)
                /\ IsNearest(entry.output_cost,
                             request.output_tokens_monthly * CatalogModelOf(entry).output_per_1m,
                             10000)
                /\ entry.monthly_cost = entry.input_cost + entry.output_cost

\* C13: input_cost and output_cost are the two costs rounded to 4 decimals, and
\* monthly_cost is the sum of the two costs as they are before rounding,
\* rounded once to 4 decimals.
C13_CostRounding ==
    Calculated =>
        \A k \in 1..Len(CalculatedResults) :
            LET entry == CalculatedResults[k]
                request == pricing_reply[1].request
                input == request.input_tokens_monthly * CatalogModelOf(entry).input_per_1m
                output == request.output_tokens_monthly * CatalogModelOf(entry).output_per_1m
            IN  /\ IsNearest(entry.input_cost, input, 10000)
                /\ IsNearest(entry.output_cost, output, 10000)
                /\ IsNearest(entry.monthly_cost, input + output, 10000)

\* 16 input and 3 output tokens at 2.50 and 10.00 per 1M: 0.00004 and 0.00003
\* round to 0.0 each, their sum 0.00007 rounds to 0.0001.
C13_Witness ==
    /\ Calculated
    /\ pricing_reply[1].request.input_tokens_monthly = 16
    /\ pricing_reply[1].request.output_tokens_monthly = 3
    /\ \E k \in 1..Len(CalculatedResults) :
          /\ IsGpt4o(CalculatedResults[k])
          /\ CalculatedResults[k].input_cost = 0
          /\ CalculatedResults[k].output_cost = 0
          /\ CalculatedResults[k].monthly_cost = 1

\* The place of a result entry in the iteration over the catalog: the index of
\* its provider, then the index of its model among the models of the provider.
ProviderIndex(entry) ==
    CHOOSE p \in 1..Len(pricing_data[1].providers) :
        pricing_data[1].providers[p].id = entry.provider
ModelIndex(entry) ==
    LET models == pricing_data[1].providers[ProviderIndex(entry)].models
    IN  CHOOSE j \in 1..Len(models) : models[j].id = entry.model
EarlierInCatalog(a, b) ==
    \/ ProviderIndex(a) < ProviderIndex(b)
    \/ ProviderIndex(a) = ProviderIndex(b) /\ ModelIndex(a) < ModelIndex(b)

\* C14: results holds exactly one entry per catalog model, monthly_cost does
\* not decrease along it, entries of equal monthly_cost stand in catalog
\* iteration order, cheapest is its first entry and most_expensive its last.
C14_SortedStable ==
    Calculated =>
        LET results == CalculatedResults
            body == pricing_reply[1].body[1]
            providers == pricing_data[1].providers
        IN  /\ \A p \in 1..Len(providers) : \A j \in 1..Len(providers[p].models) :
                  Cardinality({k \in 1..Len(results) :
                                  /\ results[k].provider = providers[p].id
                                  /\ results[k].model = providers[p].models[j].id}) = 1
            /\ \A k \in 1..Len(results) :
                  /\ HasProvider(pricing_data[1], results[k].provider)
                  /\ HasModel(ProviderOf(pricing_data[1], results[k].provider),
                              results[k].model)
            /\ \A k \in 1..Len(results), l \in 1..Len(results) :
                  k < l => /\ results[k].monthly_cost <= results[l].monthly_cost
                           /\ results[k].monthly_cost = results[l].monthly_cost
                                => EarlierInCatalog(results[k], results[l])
            /\ results # <<>> =>
                  /\ body.cheapest.provider = results[1].provider
                  /\ body.cheapest.model = results[1].model
                  /\ body.cheapest.monthly_cost = results[1].monthly_cost
                  /\ body.most_expensive.provider = results[Len(results)].provider
                  /\ body.most_expensive.model = results[Len(results)].model
                  /\ body.most_expensive.monthly_cost = results[Len(results)].monthly_cost

\* 1M input and 500k output tokens on the full catalog: gemini-pro and gpt-4o
\* cost the same, gemini-pro comes first in the catalog and in the results.
C14_Witness ==
    /\ Calculated
    /\ pricing_data = Some(CatalogFull)
    /\ pricing_reply[1].request.input_tokens_monthly = 1000000
    /\ pricing_reply[1].request.output_tokens_monthly = 500000
    /\ Len(CalculatedResults) = 4
    /\ CalculatedResults[1].model = gpt_4o_mini
    /\ CalculatedResults[2].model = gemini_pro
    /\ CalculatedResults[3].model = gpt_4o
    /\ CalculatedResults[2].monthly_cost = CalculatedResults[3].monthly_cost
    /\ CalculatedResults[4].model = claude_sonnet_45
    /\ pricing_reply[1].body[1].cheapest.model = gpt_4o_mini
    /\ pricing_reply[1].body[1].most_expensive.model = claude_sonnet_45

\* The results entry of openai/gpt-4o, None when the catalog has none.
Gpt4oEntry ==
    LET at == {k \in 1..Len(CalculatedResults) : IsGpt4o(CalculatedResults[k])}
    IN  IF at = {} THEN None ELSE Some(CalculatedResults[CHOOSE k \in at : TRUE])

\* C15 as stated: with openai/gpt-4o in the catalog at a cost above zero,
\* vs_gpt4o_savings_percent of every entry is (gpt4o_cost - model_cost) /
\* gpt4o_cost * 100 rounded to 1 decimal; otherwise it is None for every entry.
C15_SavingsVsGpt4o_AsStated ==
    Calculated =>
        \A k \in 1..Len(CalculatedResults) :
            LET entry == CalculatedResults[k]
            IN  IF Gpt4oEntry # None /\ Gpt4oEntry[1].monthly_cost > 0
                THEN /\ entry.vs_gpt4o_savings_percent # None
                     /\ IsNearest(entry.vs_gpt4o_savings_percent[1],
                                  (Gpt4oEntry[1].monthly_cost - entry.monthly_cost) * 1000,
                                  Gpt4oEntry[1].monthly_cost)
                ELSE entry.vs_gpt4o_savings_percent = None

\* C15: with openai/gpt-4o in the catalog at a cost above zero,
\* vs_gpt4o_savings_percent of every entry other than openai/gpt-4o itself is
\* (gpt4o_cost - model_cost) / gpt4o_cost * 100 rounded to 1 decimal, and the
\* entry of openai/gpt-4o carries None; without openai/gpt-4o, or with its cost
\* at zero, it is None for every entry.
C15_SavingsVsGpt4o ==
    Calculated =>
        \A k \in 1..Len(CalculatedResults) :
            LET entry == CalculatedResults[k]
            IN  IF Gpt4oEntry # None /\ Gpt4oEntry[1].monthly_cost > 0 /\ ~IsGpt4o(entry)
                THEN /\ entry.vs_gpt4o_savings_percent # None
                     /\ IsNearest(entry.vs_gpt4o_savings_percent[1],
                                  (Gpt4oEntry[1].monthly_cost - entry.monthly_cost) * 1000,
                                  Gpt4oEntry[1].monthly_cost)
                ELSE entry.vs_gpt4o_savings_percent = None

\* 1M input and 500k output tokens: gpt-4o costs 7.50, gpt-4o-mini 0.45 (94.0%
\* less), claude-sonnet-45 10.50 (40.0% more); the gpt-4o entry carries None.
C15_Witness ==
    /\ Calculated
    /\ pricing_reply[1].request.input_tokens_monthly = 1000000
    /\ pricing_reply[1].request.output_tokens_monthly = 500000
    /\ Gpt4oEntry # None
    /\ Gpt4oEntry[1].monthly_cost = 75000
    /\ Gpt4oEntry[1].vs_gpt4o_savings_percent = None
    /\ \E k \in 1..Len(CalculatedResults) :
          /\ CalculatedResults[k].model = gpt_4o_mini
          /\ CalculatedResults[k].vs_gpt4o_savings_percent = Some(940)
    /\ \E k \in 1..Len(CalculatedResults) :
          /\ CalculatedResults[k].model = claude_sonnet_45
          /\ CalculatedResults[k].vs_gpt4o_savings_percent = Some(-400)

\* --------------------------------------------------- properties: compare
\* The step answers a compare request.
AnswersCompare ==
    /\ pricing_reply' # pricing_reply
    /\ pricing_reply'[1].endpoint = "POST /pricing/compare"

\* C16: a compare request with fewer than 2 or more than 5 model keys is
\* answered with a client error and no result, the catalog is not loaded by
\* it, and no state of the server changes.
C16_CompareSizeRejected ==
    [][ (AnswersCompare /\ Len(pricing_reply'[1].request.models) \notin 2..5)
            => /\ pricing_reply'[1].status_code = 422
               /\ pricing_reply'[1].body = None
               /\ pricing_data_cached' = pricing_data_cached
               /\ UNCHANGED <<pricing_data, analyticsVars, statusVars, matcherVars>> ]_vars

\* A request of 6 keys was refused while the catalog had never been loaded.
C16_Witness ==
    /\ pricing_reply # None
    /\ pricing_reply[1].endpoint = "POST /pricing/compare"
    /\ Len(pricing_reply[1].request.models) = 6
    /\ pricing_reply[1].request.input_tokens_monthly >= 0
    /\ pricing_reply[1].status_code = 422
    /\ pricing_data # None
    /\ ~pricing_data_cached

\* What the catalog says of a key: it has no "/", or the text before its first
\* "/" is no provider, or the text behind it is no model of that provider.
KeyVerdict(model_key) ==
    IF \A i \in 1..Len(model_key) : model_key[i] # "/" THEN "Invalid model format"
    ELSE LET cut == CHOOSE i \in 1..Len(model_key) :
                        model_key[i] = "/" /\ \A j \in 1..(i - 1) : model_key[j] # "/"
             providers == pricing_data[1].providers
             known == {p \in 1..Len(providers) :
                          providers[p].id = SubSeq(model_key, 1, cut - 1)}
         IN  IF known = {} THEN "Unknown provider"
             ELSE IF \A p \in known : \A j \in 1..Len(providers[p].models) :
                        providers[p].models[j].id # SubSeq(model_key, cut + 1, Len(model_key))
             THEN "Unknown model"
             ELSE "ok"

\* A compare request of 2 to 5 keys and non-negative token counts was answered
\* from a catalog.
Compared ==
    /\ pricing_reply # None
    /\ pricing_reply[1].endpoint = "POST /pricing/compare"
    /\ Len(pricing_reply[1].request.models) \in 2..5
    /\ pricing_reply[1].request.input_tokens_monthly >= 0
    /\ pricing_reply[1].request.output_tokens_monthly >= 0
    /\ pricing_data # None

\* C17: the keys are validated in request order: the answer is 400 with the
\* detail of the first key that is not a catalog model (Invalid model format,
\* Unknown provider, Unknown model), and a comparison is returned only when
\* every key names a catalog model.
C17_FirstInvalidKey ==
    Compared =>
        LET keys == pricing_reply[1].request.models
            bad == {k \in 1..Len(keys) : KeyVerdict(keys[k]) # "ok"}
        IN  IF bad = {}
            THEN pricing_reply[1].status_code = 200 /\ pricing_reply[1].body # None
            ELSE LET first == CHOOSE k \in bad : \A k2 \in bad : k <= k2
                 IN  /\ pricing_reply[1].status_code = 400
                     /\ pricing_reply[1].body = None
                     /\ pricing_reply[1].detail.detail = KeyVerdict(keys[first])

\* A request whose second key is an unknown model and whose third key has no
\* "/" was answered with Unknown model.
C17_Witness ==
    /\ Compared
    /\ pricing_data = Some(CatalogFull)
    /\ pricing_reply[1].request.models = <<KeyGpt4o, KeyUnknownModel, KeyNoSlash>>
    /\ pricing_reply[1].status_code = 400
    /\ pricing_reply[1].detail.detail = "Unknown model"

\* C18: a comparison of N models carries cost_rank 1, 2, ..., N in list order
\* with monthly_cost not decreasing along the list; the entry of rank 1 has
\* cost_vs_cheapest_amount 0.0 and cost_vs_cheapest 0; cheapest names the model
\* of rank 1 and most_expensive the model of rank N.
C18_Ranks ==
    (Compared /\ pricing_reply[1].status_code = 200) =>
        LET body == pricing_reply[1].body[1]
            models == body.models
            N == Len(pricing_reply[1].request.models)
        IN  /\ Len(models) = N
            /\ \A k \in 1..N : models[k].cost_rank = k
            /\ \A k \in 1..(N - 1) : models[k].monthly_cost <= models[k + 1].monthly_cost
            /\ models[1].cost_vs_cheapest_amount = 0
            /\ models[1].cost_vs_cheapest = 0
            /\ body.cheapest = models[1].provider \o <<"/">> \o models[1].model
            /\ body.most_expensive = models[N].provider \o <<"/">> \o models[N].model

\* gpt-4o, gpt-4o-mini and claude-sonnet-45 at 1M input and 500k output tokens
\* are ranked gpt-4o-mini, gpt-4o, claude-sonnet-45.
C18_Witness ==
    /\ Compared
    /\ pricing_reply[1].status_code = 200
    /\ pricing_reply[1].request.models = <<KeyGpt4o, KeyMini, KeySonnet>>
    /\ pricing_reply[1].request.input_tokens_monthly = 1000000
    /\ pricing_reply[1].body[1].models[1].model = gpt_4o_mini
    /\ pricing_reply[1].body[1].models[2].model = gpt_4o
    /\ pricing_reply[1].body[1].models[3].cost_rank = 3
    /\ pricing_reply[1].body[1].models[3].cost_vs_cheapest_amount = 1005
    /\ pricing_reply[1].body[1].cheapest = KeyMini
    /\ pricing_reply[1].body[1].most_expensive = KeySonnet

\* ------------------------------------------- properties: matching and ranking
\* m: how many keywords of the pattern occur in the message, case ignored.
Hits(pattern, error_message) ==
    Cardinality({k \in 1..Len(pattern.error_keywords) :
                    OccursIgnoringCase(pattern.error_keywords[k], error_message)})

\* The tier of m occurring keywords out of k.
Tier(m, k) ==
    IF m >= 3 \/ m >= k THEN "high"
    ELSE IF m >= 2 THEN "medium"
    ELSE "low"

\* C19: a pattern with k keywords of which m >= 1 occur in the message matches
\* with confidence high if m >= min(3, k), medium if that fails and m >= 2, low
\* otherwise, whatever the keywords and the message are; so a pattern of one
\* keyword that matches is high, and medium comes only with m = 2 and k >= 3.  A
\* pattern none of whose keywords occurs does not match.
C19_ConfidenceTiers ==
    (match_call # None /\ match_call[1].fn = "match_error_pattern") =>
        LET pattern == match_call[1].pattern
            result == match_call[1].result
            k == Len(pattern.error_keywords)
            m == Hits(pattern, match_message)
        IN  /\ result = None <=> m = 0
            /\ result # None =>
                  /\ Len(result[1].matched_keywords) = m
                  /\ result[1].confidence = Tier(m, k)
                  /\ k = 1 => result[1].confidence = "high"
                  /\ result[1].confidence = "medium" => m = 2 /\ k >= 3

\* The pattern of one keyword matched with high, on a message where two of the
\* four keywords of context_length occur.
C19_Witness ==
    /\ match_call # None
    /\ match_call[1].fn = "match_error_pattern"
    /\ Len(match_call[1].pattern.error_keywords) = 1
    /\ match_call[1].result # None
    /\ match_call[1].result[1].confidence = "high"
    /\ Hits(MatcherPatterns[4], match_message) = 2
    /\ match_error_pattern(match_message, MatcherPatterns[4]) # None
    /\ match_error_pattern(match_message, MatcherPatterns[4])[1].confidence = "medium"

\* Per place in the catalog: how many keywords of the pattern there occur in
\* the message.
HitsOf(patterns, error_message) ==
    [p \in 1..Len(patterns) |-> Hits(patterns[p], error_message)]

\* Candidate a goes before candidate b: a greater match fraction; at equal
\* fractions, high before not high; equal on both, the earlier in the catalog.
GoesBefore(patterns, hits, a, b) ==
    LET ka == Len(patterns[a].error_keywords)
        kb == Len(patterns[b].error_keywords)
        ha == Tier(hits[a], ka) = "high"
        hb == Tier(hits[b], kb) = "high"
    IN  \/ hits[a] * kb > hits[b] * ka
        \/ hits[a] * kb = hits[b] * ka /\ ha /\ ~hb
        \/ hits[a] * kb = hits[b] * ka /\ ha = hb /\ a < b

\* C20: decode_error returns None when no pattern is a candidate (has an
\* occurring keyword), and otherwise the candidate that goes before every
\* other: the one with the greatest match fraction; among equal fractions one
\* whose confidence is high before one whose confidence is not; among
\* candidates equal on both, the earliest in the catalog.
C20_BestMatch ==
    (match_call # None /\ match_call[1].fn = "decode_error") =>
        LET patterns == match_call[1].patterns
            result == match_call[1].result
            hits == HitsOf(patterns, match_message)
            candidates == {p \in 1..Len(patterns) : hits[p] >= 1}
        IN  /\ result = None <=> candidates = {}
            /\ result # None =>
                  \E best \in candidates :
                      /\ result[1].pattern = patterns[best]
                      /\ result[1].confidence =
                            Tier(hits[best], Len(patterns[best].error_keywords))
                      /\ \A other \in candidates \ {best} :
                            GoesBefore(patterns, hits, best, other)

\* One keyword of the two of auth and three of the six of rate_limit occur:
\* the fractions are equal, auth is first in the catalog and low, rate_limit
\* is high and is returned.
C20_Witness ==
    /\ match_call # None
    /\ match_call[1].fn = "decode_error"
    /\ match_call[1].patterns = MatcherPatterns
    /\ match_message = <<"I", "n", "v", "a", "l", "i", "d", " ", "R", "a", "t", "e", " ", "L", "i", "m", "i", "t", " ", "4", "2", "9", " ", "e", "x", "c", "e", "e", "d", "e", "d">>
    /\ Hits(MatcherPatterns[1], match_message) = 1
    /\ Hits(MatcherPatterns[2], match_message) = 3
    /\ match_call[1].result # None
    /\ match_call[1].result[1].pattern.id = "rate_limit"
    /\ match_call[1].result[1].confidence = "high"

\* ---------------------------------------------- properties: WordPress adapter
Backoff == <<5, 10, 20>>

RetryableResponse(outcome) ==
    outcome.kind = "response" /\ outcome.status_code \in {429, 500, 502, 503, 504}

CallRunning == wp_pc # "idle" /\ retry_result = None
CallEnded == wp_pc # "idle" /\ retry_result # None

\* The attempts made so far in the call and the waits between them: at most
\* 4 requests, the i-th retry after a wait of 5, 10, 20 seconds, no wait
\* after the attempt that ended the call.
RetrySchedule ==
    wp_pc # "idle" =>
        /\ Len(outcomes) <= 4
        /\ Len(sleeps) = (IF retry_result = None THEN Len(outcomes) ELSE Len(outcomes) - 1)
        /\ \A i \in 1..Len(sleeps) : sleeps[i] = Backoff[i]

\* What a response does to the call: a retryable status on one of the first
\* three attempts is followed by a wait and a retry, every other response is
\* the last attempt and is what the call returns.
ResponseHandling ==
    wp_pc # "idle" =>
        \A i \in 1..Len(outcomes) :
            outcomes[i].kind = "response" =>
                IF RetryableResponse(outcomes[i]) /\ i <= 3
                THEN Len(sleeps) >= i
                ELSE /\ i = Len(outcomes)
                     /\ Len(sleeps) = i - 1
                     /\ retry_result # None
                     /\ retry_result[1].kind = "response"
                     /\ retry_result[1].status_code = outcomes[i].status_code

\* C21: _request_with_retry retries a response with a status in {429, 500,
\* 502, 503, 504} at most 3 times (at most 4 requests), waiting 5 s, 10 s and
\* 20 s before the 1st, 2nd and 3rd retry; a response with another status is
\* returned after the attempt that produced it, with no further request and
\* no wait; a retryable status on the 4th attempt is returned; and every call
\* ends.
C21_RetryPolicy ==
    /\ [](RetrySchedule /\ ResponseHandling)
    /\ (CallRunning ~> CallEnded)

\* Four attempts all answered with a retryable status: three waits, and the
\* last response returned.
C21_Witness ==
    /\ CallEnded
    /\ Len(outcomes) = 4
    /\ \A i \in 1..4 : RetryableResponse(outcomes[i])
    /\ outcomes[1].status_code = 429
    /\ sleeps = <<5, 10, 20>>
    /\ retry_result[1].kind = "response"
    /\ retry_result[1].status_code = outcomes[4].status_code

\* C26 as stated: an attempt is followed by another one only when it returned
\* a status in {429, 500, 502, 503, 504}; an attempt ending in a transport
\* exception is not retried.
C26_RetryOnlyOnStatus_AsStated ==
    wp_pc # "idle" =>
        \A i \in 1..Len(outcomes) :
            (i < Len(outcomes) \/ Len(sleeps) >= i) => RetryableResponse(outcomes[i])

\* C26: an attempt is followed by a retry only when it returned a status in
\* {429, 500, 502, 503, 504} or raised a requests.RequestException, and it
\* was not the 4th attempt; an attempt ending with another status or another
\* exception is the last one of the call.
C26_RetryOnlyOnStatus ==
    wp_pc # "idle" =>
        \A i \in 1..Len(outcomes) :
            LET retried == i < Len(outcomes) \/ Len(sleeps) >= i
                transient == RetryableResponse(outcomes[i])
                                 \/ outcomes[i].kind = "RequestException"
            IN  /\ retried => (transient /\ i <= 3)
                /\ ~transient => (i = Len(outcomes) /\ retry_result # None)

\* A connection error answered by a retry, which met a status that is not
\* retried.
C26_Witness ==
    /\ CallEnded
    /\ Len(outcomes) = 2
    /\ outcomes[1].kind = "RequestException"
    /\ outcomes[2].kind = "response" /\ outcomes[2].status_code = 404
    /\ sleeps = <<5>>

PagesWithPushSlug == {i \in 1..Len(wp_site) : wp_site[i].slug = PushSlug}

\* C27: a push creates a page only when WordPress holds none with the slug,
\* so that the site never holds two pages made for the same slug.
C27_UpsertBySlug ==
    /\ (wp_pc = "create_page" /\ retry_result = None) => PagesWithPushSlug = {}
    /\ Cardinality(PagesWithPushSlug) <= 1

\* ------------------------------------------------ properties: subscription
\* a and b are the same text up to the case of their letters.
SameIgnoringCase(a, b) ==
    Len(a) = Len(b) /\ \A i \in 1..Len(a) : SameLetter(a[i], b[i])

\* C23: subscribe_email returns success True and the caller's message
\* whatever the Mailchimp step did; mailchimp_synced is True exactly when
\* Mailchimp is configured and the set_list_member call returned without
\* raising; the subscriber key of the call is a hash of the lower-cased
\* email: it is the key of an address exactly when the two differ by case
\* only.
C23_SubscribeDegradesGracefully ==
    [][\A email \in Emails, tool_name \in ToolNames, interest_tags \in InterestTags,
          success_message \in SuccessMessages, mailchimp \in MailchimpOutcomes :
            subscribe_email(email, tool_name, interest_tags, success_message, mailchimp) =>
                LET reply == subscribe_reply'[1]
                    call == set_list_member'
                    configured == /\ environ.MAILCHIMP_API_KEY \notin {None, Some(<<>>)}
                                  /\ environ.MAILCHIMP_LIST_ID \notin {None, Some(<<>>)}
                IN  /\ reply.success = TRUE
                    /\ reply.message = success_message
                    /\ reply.mailchimp_synced
                           <=> (configured /\ call # None /\ ~call[1].raised)
                    /\ call # None =>
                           /\ configured
                           /\ call[1].member_data.email_address = email
                           /\ \A other \in Emails :
                                  (call[1].subscriber_hash = [md5 |-> other])
                                      <=> (other = Lower(other) /\ SameIgnoringCase(other, email))
       ]_vars

\* The second call synced an address with capitals under the key of its
\* lower-cased form.
C23_Witness ==
    /\ subscriptions = 2
    /\ subscribe_reply # None
    /\ subscribe_reply[1].mailchimp_synced
    /\ set_list_member # None
    /\ set_list_member[1].member_data.email_address = EmailUpper
    /\ set_list_member[1].subscriber_hash = [md5 |-> EmailLower]
    /\ DOMAIN list_members = {[md5 |-> EmailLower]}

\* ---------------------------------------------- properties: invalid input
\* The last answer of a decode endpoint is an answer to an empty message.
DecodeRefused ==
    decode_reply # None /\ "status_code" \in DOMAIN decode_reply[1]

\* The last answer of a calculate endpoint is an answer to a negative count.
CalculateRefused ==
    /\ pricing_reply # None
    /\ \/ pricing_reply[1].request.input_tokens_monthly < 0
       \/ pricing_reply[1].request.output_tokens_monthly < 0

ClientError(status_code, detail) ==
    status_code \in 400..499 /\ detail # None

\* C22: the POST and the GET variants of decode and calculate answer an empty
\* error_message and a negative token count with a 4xx status and a detail,
\* never with a 5xx status, and such a request changes no usage counter.
C22_InvalidInputIsClientError ==
    /\ [](DecodeRefused =>
              ClientError(decode_reply[1].status_code, decode_reply[1].detail))
    /\ [](CalculateRefused =>
              ClientError(pricing_reply[1].status_code,
                          Some(pricing_reply[1].detail)))
    /\ [][(\/ (decode_reply' # decode_reply /\ DecodeRefused')
           \/ (pricing_reply' # pricing_reply /\ CalculateRefused'))
              => stats' = stats]_vars

\* ------------------------------------------------ properties: token buckets
PricingCalculator == stats.pricing_calculator

BucketSum(pricing) ==
    pricing.token_buckets["under_1k"] + pricing.token_buckets["1k_to_10k"]
        + pricing.token_buckets["10k_to_100k"] + pricing.token_buckets["over_100k"]

\* The bucket of a number of tokens, by its ranges.
BucketOfTotal(total) ==
    CHOOSE b \in TokenBuckets :
        \/ b = "under_1k" /\ total < 1000
        \/ b = "1k_to_10k" /\ total \in 1000..9999
        \/ b = "10k_to_100k" /\ total \in 10000..99999
        \/ b = "over_100k" /\ total >= 100000

\* C28: each track_pricing_calculation call adds 1 to pricing_calculator.total
\* and to exactly one bucket, the one of input_tokens + output_tokens
\* (under_1k below 1000, 1k_to_10k for 1000..9999, 10k_to_100k for
\* 10000..99999, over_100k from 100000), so that after any sequence of
\* tracked calls and resets the four buckets sum to the total.
C28_BucketsPartition ==
    /\ [](BucketSum(PricingCalculator) = PricingCalculator.total)
    /\ [][\A input_tokens \in TrackedInputTokens, output_tokens \in TrackedOutputTokens :
            CallTrackPricingCalculation(input_tokens, output_tokens) =>
                /\ PricingCalculator'.total = PricingCalculator.total + 1
                /\ \A b \in TokenBuckets :
                       PricingCalculator'.token_buckets[b] =
                           PricingCalculator.token_buckets[b]
                               + (IF b = BucketOfTotal(input_tokens + output_tokens)
                                  THEN 1 ELSE 0)
       ]_vars

\* After a reset of counters that had three tracked calls, one call fell in
\* 1k_to_10k and one in 10k_to_100k.
C28_Witness ==
    /\ reset_reply # None
    /\ reset_reply[1].previous_stats.pricing_calculator.total = 3
    /\ PricingCalculator.total = 2
    /\ PricingCalculator.token_buckets["1k_to_10k"] = 1
    /\ PricingCalculator.token_buckets["10k_to_100k"] = 1

\* ------------------------------------------------------ properties: gaps
\* The sum of count over the entries of a gaps map.
RECURSIVE SumOfCounts(_)
SumOfCounts(gaps) ==
    IF DOMAIN gaps = {} THEN 0
    ELSE LET k == CHOOSE x \in DOMAIN gaps : TRUE
         IN  gaps[k].count + SumOfCounts([x \in DOMAIN gaps \ {k} |-> gaps[x]])

\* C30: after any sequence of decode calls and resets the counts of the gap
\* entries sum to error_decoder.unmatched and every entry has count >= 1; a
\* matched decode leaves the gaps map unchanged; the preview and first_seen of
\* an entry do not change while the entry exists.
C30_GapsAccounting ==
    /\ [](/\ SumOfCounts(ErrorDecoder.gaps) = ErrorDecoder.unmatched
          /\ \A k \in DOMAIN ErrorDecoder.gaps : ErrorDecoder.gaps[k].count >= 1)
    /\ [][/\ ErrorDecoder'.matched = ErrorDecoder.matched + 1
              => ErrorDecoder'.gaps = ErrorDecoder.gaps
          /\ \A k \in (DOMAIN ErrorDecoder.gaps) \cap (DOMAIN ErrorDecoder'.gaps) :
                 /\ ErrorDecoder'.gaps[k].preview = ErrorDecoder.gaps[k].preview
                 /\ ErrorDecoder'.gaps[k].first_seen = ErrorDecoder.gaps[k].first_seen
       ]_vars

\* An unmatched message decoded before and after the clock advanced, with a
\* matched decode besides: one entry, still dated by the first call.
C30_Witness ==
    /\ now > 0
    /\ ErrorDecoder.matched = 1
    /\ ErrorDecoder.unmatched = 2
    /\ DOMAIN ErrorDecoder.gaps = {sha256_hexdigest_12(MsgShort)}
    /\ ErrorDecoder.gaps[sha256_hexdigest_12(MsgShort)].count = 2
    /\ ErrorDecoder.gaps[sha256_hexdigest_12(MsgShort)].first_seen = 0
    /\ decode_reply # None
    /\ decode_reply[1].error_message = MsgShort
    /\ decode_reply[1].decoded_at > 0

\* ------------------------------------------ properties: concurrent requests
Probing == {r \in Requests : pc[r] = "probing"}

\* C24: for every interleaving of concurrent GET /status/check requests at
\* most one probe fan-out is started per 60-second window: no request starts
\* its probes while the probes of another are in flight, and none starts them
\* less than 60 seconds after the start of another fan-out.
C24_OneFanOutPerWindow ==
    /\ Cardinality(Probing) <= 1
    /\ \A r \in Probing :
           status_cache # None =>
               \/ current_time[r] - status_cache_time >= STATUS_CACHE_TTL
               \/ status_cache_time - current_time[r] >= STATUS_CACHE_TTL

\* C25 as stated: a request that arrives less than 60 seconds after the cached
\* payload was captured (its last_updated) is served that payload.
C25_ValidFromCapture_AsStated ==
    [][\A r \in Requests :
          (/\ status_cache # None
           /\ now - status_cache[1].last_updated < STATUS_CACHE_TTL
           /\ CheckCache(r))
              => (served'[r] = "cache" /\ response'[r] = status_cache)
      ]_vars

\* C25: a status cache entry is dated by the start of the call that stored it
\* (the current_time read before its probes), not by the capture of the
\* payload; a request is served the cached payload exactly when it arrives
\* less than 60 seconds after that start, however long the probes took.
C25_ValidFromCapture ==
    [][\A r \in Requests :
          /\ (pc[r] = "probing" /\ pc'[r] = "done" /\ status_cache' # status_cache) =>
                 /\ status_cache_time' = current_time[r]
                 /\ status_cache'[1].last_updated = now
          /\ (status_cache # None /\ pc[r] # "probing" /\ CheckCache(r)) =>
                 IF now - status_cache_time < STATUS_CACHE_TTL
                 THEN served'[r] = "cache" /\ response'[r] = status_cache
                 ELSE served'[r] = "fresh" /\ response'[r] = None
      ]_vars

\* A request started its probes 60 seconds after the refreshing call began
\* and 30 seconds after the payload was captured.
C25_Witness ==
    /\ status_cache # None
    /\ status_cache_time = 0
    /\ status_cache[1].last_updated = 30
    /\ \E r \in Requests : pc[r] = "probing" /\ current_time[r] = 60

\* C29: under any interleaving of concurrent check_all_providers calls the
\* status cache timestamp never decreases: a refresh that started earlier and
\* finishes last does not replace the entry of one that started later.
C29_CacheTimeMonotonic ==
    [][status_cache_time' >= status_cache_time]_vars
====
